---- MODULE Spec2Model ----
(***************************************************************************)
(* BlueALSA multi-client PCM support: the ring mix buffer                  *)
(* (bluealsa-mix-buffer.c), the per-client state machine                   *)
(* (bluealsa-pcm-client.c) and the mix worker / transport read hand-shake  *)
(* (bluealsa-pcm-multi.c).                                                 *)
(*                                                                         *)
(* size_t values are kept as their two's complement representative: a      *)
(* value v >= 2^63 is written v - 2^64, so (size_t)-1 is -1 and every      *)
(* addition and subtraction of the code is the same integer operation on   *)
(* the representatives; only the unsigned comparisons differ (ULt, UGe).   *)
(***************************************************************************)
EXTENDS Integers, Sequences, FiniteSets, TLC

\* ------------------------------------------------------------ constants

BLUEALSA_MULTI_MIX_THRESHOLD == 4
BLUEALSA_MULTI_CLIENT_THRESHOLD == 2
BLUEALSA_CLIENT_BUFFER_PERIODS == BLUEALSA_MULTI_CLIENT_THRESHOLD + 1
BLUEALSA_MULTI_BUFFER_PERIODS == 16
BLUEALSA_MULTI_MAX_CLIENTS == 32

\* the wake-up counter is kept as << high, low >>, its value being
\* high * 2^16 + low; the worker terminates from 0xDEAD0000 on, that is with a
\* high part of at least 0xDEAD
ShutdownHigh == 57005

\* ------------------------------------------------------------ bounds

\* client slots of the model
MaxClients == 2
\* Spec, one client: write calls on the pipe, control messages, samples the
\* transport may take
SpecWrites == 2
SpecCmds == 1
SpecOut == 10

\* the calls SpecMix makes
MixOps == 5

\* ------------------------------------------------------------ arithmetic

Min(a, b) == IF a < b THEN a ELSE b

\* unsigned comparison of two size_t representatives
ULt(a, b) == IF (a >= 0) = (b >= 0) THEN a < b ELSE a >= 0
UGe(a, b) == ~ULt(a, b)
UGt(a, b) == ULt(b, a)

SIZE_MAX == -1

\* C integer division and conversion of a double to an integer truncate
\* toward zero
TruncDiv(a, b) == IF a >= 0 THEN a \div b ELSE -((-a) \div b)

\* int16_t wrap of the U8 accumulator cells
WrapInt16(x) == ((x + 32768) % 65536) - 32768

\* ------------------------------------------------------------ sample formats

BA_TRANSPORT_PCM_FORMAT_BYTES(format) ==
    CASE format = "U8" -> 1
      [] format = "S16_2LE" -> 2
      [] format = "S24_4LE" -> 4

\* (x & 0x00800000) ? x | 0xFF000000 : x, as int32_t, of the word whose low
\* three bytes are low and whose high byte is high
BA_S24_4LE_TO_INT32(low, high) ==
    IF low >= 8388608 THEN low - 16777216
    ELSE low + (IF high >= 128 THEN high - 256 ELSE high) * 16777216

\* ((x & 0x80000000) >> 8) | (x & 0x007FFFFF)
BA_INT32_TO_S24_4LE(x) == (IF x < 0 THEN 8388608 ELSE 0) + (x % 8388608)

\* the n-th sample of a little-endian byte stream, widened to the accumulator
\* type: ptr[n] - 0x80 for U8, (int16_t) ptr[n] for S16_2LE
DecodeSample(format, data, n) ==
    CASE format = "U8" -> data[n + 1] - 128
      [] format = "S16_2LE" ->
            LET u == data[2 * n + 1] + 256 * data[2 * n + 2]
            IN IF u >= 32768 THEN u - 65536 ELSE u
      [] format = "S24_4LE" ->
            BA_S24_4LE_TO_INT32(
                data[4 * n + 1] + 256 * data[4 * n + 2] + 65536 * data[4 * n + 3],
                data[4 * n + 4])

\* the little-endian bytes of one sample value
EncodeSample(format, v) ==
    CASE format = "U8" -> << v + 128 >>
      [] format = "S16_2LE" -> << v % 256, ((v + 65536) \div 256) % 256 >>
      [] format = "S24_4LE" ->
            << v % 256, (v \div 256) % 256, (v \div 65536) % 256, 0 >>

FormatMax(format) ==
    CASE format = "U8" -> 127
      [] format = "S16_2LE" -> 32767
      [] format = "S24_4LE" -> 8388607

FormatMin(format) == -FormatMax(format) - 1

\* ------------------------------------------------------------ ring mix buffer

bluealsa_mix_buffer_init(format, channels, buffer_frames, period_frames) ==
    LET size == (1 + buffer_frames) * channels
    IN [ format |-> format,
         channels |-> channels,
         frame_size |-> channels * BA_TRANSPORT_PCM_FORMAT_BYTES(format),
         size |-> size,
         period |-> period_frames * channels,
         mix_offset |-> 0,
         end |-> 0,
         data |-> [i \in 0 .. size - 1 |-> 0] ]

bluealsa_mix_buffer_calc_avail(buffer, start, end) ==
    IF UGe(end, start) THEN end - start ELSE buffer.size + end - start

bluealsa_mix_buffer_empty(buffer) == buffer.mix_offset = buffer.end

bluealsa_mix_buffer_delay(buffer, offset) ==
    bluealsa_mix_buffer_calc_avail(buffer, buffer.mix_offset, offset)

\* a start threshold that waits for one period more than MIX_THRESHOLD
mix_at_threshold_late(buffer) ==
    LET avail == bluealsa_mix_buffer_calc_avail(buffer, buffer.mix_offset, buffer.end)
    IN avail >= (BLUEALSA_MULTI_MIX_THRESHOLD + 1) * buffer.period

bluealsa_mix_buffer_at_threshold(buffer) ==
    LET avail == bluealsa_mix_buffer_calc_avail(buffer, buffer.mix_offset, buffer.end)
    IN avail >= (BLUEALSA_MULTI_MIX_THRESHOLD * buffer.period) \div buffer.channels

\* the accumulating loop of add: wraps start once the index passes the end of
\* the storage, decodes sample n and adds it into the cell
RECURSIVE mix_add_loop(_, _, _, _, _, _)
mix_add_loop(buffer, cells, start, n, samples, data) ==
    IF n >= samples THEN [data |-> cells, start |-> start]
    ELSE LET st == IF start + n >= buffer.size THEN start - buffer.size ELSE start
             v == DecodeSample(buffer.format, data, n)
             acc == IF buffer.format = "U8" THEN WrapInt16(cells[st + n] + v)
                    ELSE cells[st + n] + v
         IN mix_add_loop(buffer, [cells EXCEPT ![st + n] = acc], st, n + 1, samples, data)

\* add(buffer, &offset, data, bytes): the new buffer, the new *offset and the
\* number of bytes consumed
bluealsa_mix_buffer_add(buffer, offset, data, bytes) ==
    LET mix_offset == buffer.mix_offset
        avail == bluealsa_mix_buffer_calc_avail(buffer, mix_offset, buffer.end)
        start0 == IF offset < 0 THEN mix_offset - offset ELSE offset
        frames == bytes \div buffer.frame_size
        samples0 == frames * buffer.channels
        start1 == IF ULt(start0, mix_offset) THEN start0 + buffer.size ELSE start0
        limit == mix_offset + (BLUEALSA_MULTI_MIX_THRESHOLD + 1) * buffer.period
    IN IF UGe(start1, limit)
       THEN [buffer |-> buffer, offset |-> offset, ret |-> 0]
       ELSE LET samples == IF UGt(start1 + samples0, limit) THEN limit - start1 ELSE samples0
                loop == mix_add_loop(buffer, buffer.data, start1, 0, samples, data)
                new_offset == loop.start + samples
                new_end == IF UGt(bluealsa_mix_buffer_calc_avail(buffer, mix_offset, new_offset), avail)
                           THEN new_offset ELSE buffer.end
            IN [ buffer |-> [buffer EXCEPT !.data = loop.data, !.end = new_end],
                 offset |-> new_offset,
                 ret |-> (samples * buffer.frame_size) \div buffer.channels ]

\* sample *= scale, the scale held in hundredths
ScaleSample(x, scale) == TruncDiv(x * scale, 100)

\* one channel of a read loop that stores the scaled cell without saturating
\* it to the range of the format
mix_read_sample_unsaturated(buffer, cell, scale) ==
    LET scaled == IF scale = 0 THEN 0
                  ELSE IF buffer.format = "S16_2LE" /\ ~(scale < 99) THEN cell
                  ELSE ScaleSample(cell, scale)
    IN CASE buffer.format = "U8" -> 128 + scaled
         [] buffer.format = "S16_2LE" -> scaled
         [] buffer.format = "S24_4LE" -> BA_INT32_TO_S24_4LE(scaled)

\* one channel of the read loop: the cell as scaled and saturated, and the
\* value stored to the destination
mix_read_sample(buffer, cell, scale) ==
    LET scaled == IF scale = 0 THEN 0
                  ELSE IF buffer.format = "S16_2LE" /\ ~(scale < 99) THEN cell
                  ELSE ScaleSample(cell, scale)
        sat == IF scale = 0 THEN 0
               ELSE IF scaled > FormatMax(buffer.format) THEN FormatMax(buffer.format)
               ELSE IF scaled < FormatMin(buffer.format) THEN FormatMin(buffer.format)
               ELSE scaled
    IN CASE buffer.format = "U8" -> 128 + sat
         [] buffer.format = "S16_2LE" -> sat
         [] buffer.format = "S24_4LE" -> BA_INT32_TO_S24_4LE(sat)

\* the clipping of the requested sample count at the head of read
mix_read_clip(buffer, samples) ==
    LET s1 == samples - (samples % buffer.channels)
        s2 == IF s1 > buffer.period THEN buffer.period ELSE s1
        avail == bluealsa_mix_buffer_calc_avail(buffer, buffer.mix_offset, buffer.end)
    IN IF UGt(s2, avail) THEN avail ELSE s2

\* a cell of the accumulator storage; a frame that starts on the last cell of
\* the storage reads past it, which is taken to read zero
CellAt(cells, i) == IF i \in DOMAIN cells THEN cells[i] ELSE 0

\* the frame loop of read from the snapshot start: the cells delivered are
\* zeroed, their values appended to out; n advances by whole frames
RECURSIVE mix_read_loop(_, _, _, _, _, _, _)
mix_read_loop(buffer, cells, start, n, samples, scale, out) ==
    IF n >= samples THEN [data |-> cells, start |-> start, n |-> n, out |-> out]
    ELSE LET st == IF start + n >= buffer.size THEN start - buffer.size ELSE start
             idx == [ch \in 0 .. buffer.channels - 1 |-> st + n + ch]
             frame == [ch \in 1 .. buffer.channels |->
                          mix_read_sample(buffer, CellAt(cells, idx[ch - 1]), scale[ch - 1])]
             zeroed == [i \in DOMAIN cells |->
                          IF i >= st + n /\ i < st + n + buffer.channels THEN 0 ELSE cells[i]]
         IN mix_read_loop(buffer, zeroed, st, n + buffer.channels, samples, scale, out \o frame)

\* read(buffer, data, samples, scale): the new buffer, the samples stored to
\* data and the count returned
bluealsa_mix_buffer_read(buffer, samples, scale) ==
    LET clipped == mix_read_clip(buffer, samples)
        loop == mix_read_loop(buffer, buffer.data, buffer.mix_offset, 0, clipped, scale, << >>)
    IN [ buffer |-> [buffer EXCEPT !.data = loop.data, !.mix_offset = loop.start + loop.n],
         out |-> loop.out,
         ret |-> clipped ]

\* a clear that resets the positions and leaves the cells as they are
mix_buffer_clear_offsets(buffer) == [buffer EXCEPT !.mix_offset = 0, !.end = 0]

bluealsa_mix_buffer_clear(buffer) ==
    [buffer EXCEPT !.mix_offset = 0, !.end = 0,
                   !.data = [i \in 0 .. buffer.size - 1 |-> 0]]

\* ------------------------------------------------------------ control protocol

BLUEALSA_PCM_CTRL_DRAIN == << "D", "r", "a", "i", "n" >>
BLUEALSA_PCM_CTRL_DROP == << "D", "r", "o", "p" >>
BLUEALSA_PCM_CTRL_PAUSE == << "P", "a", "u", "s", "e" >>
BLUEALSA_PCM_CTRL_RESUME == << "R", "e", "s", "u", "m", "e" >>

\* strncmp(command, literal, len) == 0 for a command of len > 0 characters
\* without NUL: the command is a prefix of the literal
strncmp_eq(command, literal) ==
    /\ Len(command) <= Len(literal)
    /\ \A i \in 1 .. Len(command) : command[i] = literal[i]

\* ------------------------------------------------------------ client

\* a client slot that is not allocated
NoClient ==
    [ state |-> "NONE", pcm_fd |-> -1, control_fd |-> -1, drain_timer |-> "off",
      buffer |-> << >>, buffer_size |-> 0, in_offset |-> 0, out_offset |-> 0,
      drain_avail |-> 0, drop |-> FALSE, watch |-> FALSE ]

bluealsa_pcm_client_is_playback(w) == w.pcm.mode = "SINK"
bluealsa_pcm_client_is_capture(w) == w.pcm.mode = "SOURCE"

bluealsa_pcm_client_playback_init_offset(w, c) ==
    LET buffer == w.multi.playback_buffer
    IN (BLUEALSA_MULTI_MIX_THRESHOLD * buffer.period)
         - ((w.cl[c].in_offset * buffer.channels) \div buffer.frame_size)

bluealsa_pcm_client_set_state(w, c, new_state) ==
    LET old == w.cl[c].state
        dec == [w EXCEPT !.multi.active_count = @ - 1]
        inc == [w EXCEPT !.multi.active_count = @ + 1]
        set(v) == [v EXCEPT !.cl[c].state = new_state]
    IN IF new_state = old THEN w
       ELSE CASE new_state = "IDLE" ->
                    LET w1 == [w EXCEPT !.cl[c].drain_avail = SIZE_MAX]
                    IN IF old \in {"RUNNING", "DRAINING1"}
                       THEN set([w1 EXCEPT !.multi.active_count = @ - 1])
                       ELSE set(w1)
              [] new_state = "FINISHED" ->
                    IF old \in {"RUNNING", "DRAINING1"} THEN set(dec) ELSE set(w)
              [] new_state = "PAUSED" ->
                    IF old = "RUNNING" /\ bluealsa_pcm_client_is_capture(w)
                    THEN set(dec) ELSE set(w)
              [] new_state = "RUNNING" ->
                    IF bluealsa_pcm_client_is_capture(w)
                    THEN IF old \in {"IDLE", "INIT", "PAUSED"} THEN set(inc) ELSE set(w)
                    ELSE IF old = "IDLE"
                         THEN set([inc EXCEPT !.cl[c].out_offset =
                                      -bluealsa_pcm_client_playback_init_offset(w, c)])
                         ELSE IF old = "DRAINING1" THEN w
                         ELSE set(w)
              [] new_state = "DRAINING1" -> set(w)
              [] new_state = "DRAINING2" ->
                    IF old = "DRAINING1" THEN set(dec) ELSE set(w)
              [] OTHER -> set(w)

bluealsa_pcm_client_close_pcm(w, c) ==
    IF w.cl[c].pcm_fd # -1
    THEN [w EXCEPT !.cl[c].watch = FALSE, !.cl[c].pcm_fd = -1]
    ELSE w

bluealsa_pcm_client_close_control(w, c) ==
    IF w.cl[c].control_fd # -1 THEN [w EXCEPT !.cl[c].control_fd = -1] ELSE w

bluealsa_pcm_client_watch_pcm(w, c, enabled) ==
    IF w.cl[c].watch = enabled THEN w ELSE [w EXCEPT !.cl[c].watch = enabled]

\* timerfd_settime: a non-zero value arms the one-shot timer, zero disarms it
\* and clears an expiry that was not consumed
bluealsa_pcm_client_watch_drain(w, c, enabled) ==
    [w EXCEPT !.cl[c].drain_timer = IF enabled THEN "armed" ELSE "off"]

\* read from the FIFO into the tail of the client buffer: the bytes returned
\* (-1 when the peer closed the pipe) and the errno left behind
bluealsa_pcm_client_read(w, c) ==
    LET client == w.cl[c]
        space == client.buffer_size - client.in_offset
        fifo == w.pipe[c]
        count == Min(space, Len(fifo.data))
    IN IF space = 0 THEN [w |-> w, bytes |-> 0, errno |-> "stale"]
       ELSE IF client.pcm_fd = -1 THEN [w |-> w, bytes |-> -1, errno |-> "EBADF"]
       ELSE IF count > 0
            THEN [ w |-> [w EXCEPT !.pipe[c].data = SubSeq(@, count + 1, Len(@)),
                                   !.cl[c].buffer = @ \o SubSeq(fifo.data, 1, count),
                                   !.cl[c].in_offset = @ + count],
                   bytes |-> count, errno |-> "stale" ]
            ELSE IF fifo.writer_open
                 THEN [w |-> w, bytes |-> 0, errno |-> "EAGAIN"]
                 ELSE [w |-> w, bytes |-> -1, errno |-> "stale"]

bluealsa_pcm_client_deliver(w, c) ==
    LET state == w.cl[c].state
        rd == bluealsa_pcm_client_read(w, c)
        w1 == IF state = "DRAINING1" THEN rd.w ELSE w
        buffer == w1.multi.playback_buffer
        mix_avail == bluealsa_mix_buffer_calc_avail(buffer, buffer.mix_offset, w1.cl[c].out_offset)
        poll == state = "DRAINING1" /\ w1.cl[c].in_offset = 0
                  /\ rd.bytes = 0 /\ rd.errno = "EAGAIN"
        w2 == IF poll THEN [w1 EXCEPT !.cl[c].drain_avail = mix_avail] ELSE w1
        add == bluealsa_mix_buffer_add(w2.multi.playback_buffer, w2.cl[c].out_offset,
                                       w2.cl[c].buffer, w2.cl[c].in_offset)
    IN IF state \notin {"RUNNING", "DRAINING1"} THEN w
       ELSE IF state = "DRAINING1" /\ rd.bytes < 0
       THEN bluealsa_pcm_client_set_state(bluealsa_pcm_client_close_pcm(w1, c), c, "FINISHED")
       ELSE IF poll /\ (mix_avail = 0 \/ UGt(mix_avail, w1.cl[c].drain_avail))
       THEN bluealsa_pcm_client_watch_drain(
                bluealsa_pcm_client_set_state(w1, c, "DRAINING2"), c, TRUE)
       ELSE IF w2.cl[c].in_offset > 0
       THEN LET w3 == [w2 EXCEPT !.multi.playback_buffer = add.buffer,
                                 !.cl[c].out_offset = add.offset]
            IN IF add.ret > 0
               THEN bluealsa_pcm_client_watch_pcm(
                        [w3 EXCEPT !.cl[c].buffer = SubSeq(@, add.ret + 1, Len(@)),
                                   !.cl[c].in_offset = @ - add.ret], c, TRUE)
               ELSE w3
       ELSE w2

bluealsa_pcm_client_handle_playback_pcm(w, c) ==
    LET rd == bluealsa_pcm_client_read(w, c)
        w1 == IF rd.bytes = 0 THEN bluealsa_pcm_client_watch_pcm(rd.w, c, FALSE) ELSE rd.w
    IN IF rd.bytes < 0
       THEN bluealsa_pcm_client_set_state(bluealsa_pcm_client_close_pcm(rd.w, c), c, "FINISHED")
       ELSE IF w1.cl[c].state = "IDLE"
               /\ w1.cl[c].in_offset > BLUEALSA_MULTI_CLIENT_THRESHOLD * w1.multi.period_bytes
            THEN bluealsa_pcm_client_set_state(w1, c, "RUNNING")
            ELSE w1

\* write(control_fd, reply, len)
control_write(w, c, reply) ==
    IF w.cl[c].control_fd # -1 /\ w.ctl[c].peer_open
    THEN [w EXCEPT !.ctl[c].reply = Append(@, reply)]
    ELSE w

\* a Drain that starts for a Running client of either direction
begin_drain_any_mode(w, c) ==
    IF w.cl[c].state = "RUNNING"
    THEN bluealsa_pcm_client_watch_pcm(
             bluealsa_pcm_client_set_state(w, c, "DRAINING1"), c, FALSE)
    ELSE control_write(w, c, "OK")

bluealsa_pcm_client_begin_drain(w, c) ==
    IF bluealsa_pcm_client_is_playback(w) /\ w.cl[c].state = "RUNNING"
    THEN bluealsa_pcm_client_watch_pcm(
             bluealsa_pcm_client_set_state(w, c, "DRAINING1"), c, FALSE)
    ELSE control_write(w, c, "OK")

\* a drop that forgets the bytes the client has buffered
bluealsa_pcm_client_drop_keeps_buffer(w, c) ==
    IF bluealsa_pcm_client_is_playback(w)
    THEN LET w1 == bluealsa_pcm_client_watch_drain(w, c, FALSE)
             w2 == [w1 EXCEPT !.pipe[c].data = IF w1.cl[c].pcm_fd # -1 THEN << >> ELSE @]
             w3 == bluealsa_pcm_client_set_state(w2, c, "IDLE")
         IN [w3 EXCEPT !.cl[c].drop = TRUE]
    ELSE w

\* splice() moves up to 32 KiB of the FIFO to /dev/null, which is all of a
\* FIFO of the size modelled
bluealsa_pcm_client_drop(w, c) ==
    IF bluealsa_pcm_client_is_playback(w)
    THEN LET w1 == bluealsa_pcm_client_watch_drain(w, c, FALSE)
             w2 == [w1 EXCEPT !.pipe[c].data = IF w1.cl[c].pcm_fd # -1 THEN << >> ELSE @,
                              !.cl[c].in_offset = 0,
                              !.cl[c].buffer = << >>]
             w3 == bluealsa_pcm_client_set_state(w2, c, "IDLE")
         IN [w3 EXCEPT !.cl[c].drop = TRUE]
    ELSE w

bluealsa_pcm_client_pause(w, c) ==
    LET w1 == bluealsa_pcm_client_watch_pcm(
                  bluealsa_pcm_client_set_state(w, c, "PAUSED"), c, FALSE)
    IN IF bluealsa_pcm_client_is_playback(w)
       THEN [w1 EXCEPT !.cl[c].out_offset =
                 -bluealsa_mix_buffer_delay(w1.multi.playback_buffer, w1.cl[c].out_offset)]
       ELSE w1

\* a resume that restarts the buffer of a client that is not Paused
resume_restarts(w, c) ==
    IF w.cl[c].state = "PAUSED"
    THEN bluealsa_pcm_client_watch_pcm(bluealsa_pcm_client_set_state(w, c, "RUNNING"), c, TRUE)
    ELSE [bluealsa_pcm_client_watch_pcm(w, c, TRUE) EXCEPT !.cl[c].drop = FALSE,
                                                           !.cl[c].in_offset = 0]

bluealsa_pcm_client_resume(w, c) ==
    LET w1 == IF w.cl[c].state = "IDLE"
              THEN IF bluealsa_pcm_client_is_playback(w)
                   THEN [bluealsa_pcm_client_watch_pcm(w, c, TRUE) EXCEPT !.cl[c].drop = FALSE]
                   ELSE bluealsa_pcm_client_set_state(w, c, "RUNNING")
              ELSE w
    IN IF w1.cl[c].state = "PAUSED"
       THEN LET w2 == bluealsa_pcm_client_set_state(w1, c, "RUNNING")
            IN IF bluealsa_pcm_client_is_playback(w)
               THEN bluealsa_pcm_client_watch_pcm(w2, c, TRUE) ELSE w2
       ELSE w1

bluealsa_pcm_client_handle_drain(w, c) ==
    IF w.cl[c].state # "DRAINING2" THEN w
    ELSE LET w1 == bluealsa_pcm_client_set_state(w, c, "IDLE")
             w2 == bluealsa_pcm_client_watch_drain(w1, c, FALSE)
             w3 == bluealsa_pcm_client_watch_pcm(w2, c, TRUE)
         IN control_write([w3 EXCEPT !.cl[c].in_offset = 0, !.cl[c].buffer = << >>], c, "OK")

bluealsa_pcm_client_handle_control(w, c) ==
    LET sock == w.ctl[c]
        command == Head(sock.msgs)
        w0 == [w EXCEPT !.ctl[c].msgs = Tail(@)]
        w1 == IF w0.cl[c].state \in {"DRAINING1", "DRAINING2"}
              THEN bluealsa_pcm_client_handle_drain(w0, c) ELSE w0
    IN IF w.cl[c].control_fd = -1 \/ (sock.msgs = << >> /\ ~sock.peer_open)
       THEN bluealsa_pcm_client_set_state(bluealsa_pcm_client_close_control(w, c), c, "FINISHED")
       ELSE IF sock.msgs = << >> THEN w
       ELSE IF strncmp_eq(command, BLUEALSA_PCM_CTRL_DRAIN)
            THEN bluealsa_pcm_client_begin_drain(w1, c)
       ELSE IF strncmp_eq(command, BLUEALSA_PCM_CTRL_DROP)
            THEN control_write(bluealsa_pcm_client_drop(w1, c), c, "OK")
       ELSE IF strncmp_eq(command, BLUEALSA_PCM_CTRL_PAUSE)
            THEN control_write(bluealsa_pcm_client_pause(w1, c), c, "OK")
       ELSE IF strncmp_eq(command, BLUEALSA_PCM_CTRL_RESUME)
            THEN control_write(bluealsa_pcm_client_resume(w1, c), c, "OK")
       ELSE control_write(w1, c, "Invalid")

bluealsa_pcm_client_handle_event(w, c, type) ==
    CASE type = "PCM" ->
            IF bluealsa_pcm_client_is_playback(w)
            THEN bluealsa_pcm_client_handle_playback_pcm(w, c) ELSE w
      [] type = "CONTROL" -> bluealsa_pcm_client_handle_control(w, c)
      [] type = "DRAIN" -> bluealsa_pcm_client_handle_drain(w, c)

bluealsa_pcm_client_handle_close_event(w, c, type) ==
    bluealsa_pcm_client_set_state(
        IF type = "PCM" THEN bluealsa_pcm_client_close_pcm(w, c)
        ELSE bluealsa_pcm_client_close_control(w, c),
        c, "FINISHED")

\* the periods the FIFO of a capture client holds
CapturePipePeriods == 2

\* the room left in the FIFO of a capture client
PipeRoom(w, c) == CapturePipePeriods * w.multi.period_bytes - Len(w.pipe[c].data)

\* write the block to the FIFO of a capture client, whose read end the peer
\* holds (writer_open tells whether the end of the peer is open). A block of at
\* most PIPE_BUF bytes is written whole or fails with EAGAIN, and is then
\* dropped; any other error closes the PCM and finishes the client
bluealsa_pcm_client_write(w, c, block) ==
    IF w.cl[c].pcm_fd = -1 \/ ~w.pipe[c].writer_open
    THEN bluealsa_pcm_client_set_state(bluealsa_pcm_client_close_pcm(w, c), c, "FINISHED")
    ELSE IF PipeRoom(w, c) >= Len(block)
         THEN [w EXCEPT !.pipe[c].data = @ \o block]
         ELSE w

bluealsa_pcm_client_init(w, c) ==
    IF bluealsa_pcm_client_is_playback(w)
    THEN bluealsa_pcm_client_watch_pcm(
             bluealsa_pcm_client_set_state(
                 [w EXCEPT !.cl[c].buffer_size =
                               BLUEALSA_CLIENT_BUFFER_PERIODS * w.multi.period_bytes,
                           !.cl[c].buffer = << >>],
                 c, "IDLE"),
             c, TRUE)
    ELSE bluealsa_pcm_client_set_state(w, c, "RUNNING")

bluealsa_pcm_client_new(w, c) ==
    [w EXCEPT !.cl[c] = [NoClient EXCEPT !.state = "INIT", !.pcm_fd = c, !.control_fd = c]]

bluealsa_pcm_client_free(w, c) ==
    LET w1 == bluealsa_pcm_client_set_state(
                  bluealsa_pcm_client_close_control(bluealsa_pcm_client_close_pcm(w, c), c),
                  c, "FINISHED")
    IN [w1 EXCEPT !.cl[c] = NoClient]

\* ------------------------------------------------------------ multi

\* release of the transport side of the PCM hand-off: the event source of the
\* PCM is closed
ba_transport_pcm_release(w) == [w EXCEPT !.pcm.fd = -1]

\* eventfd_write(multi->pcm->fd, 1)
bluealsa_pcm_multi_wake_transport(w) ==
    IF w.pcm.fd # -1 THEN [w EXCEPT !.pcm.fd = 1] ELSE w

RECURSIVE update_mix_from(_, _)
update_mix_from(w, list) ==
    IF list = << >> THEN w
    ELSE update_mix_from(bluealsa_pcm_client_deliver(w, Head(list)), Tail(list))

bluealsa_pcm_multi_update_mix(w) == update_mix_from(w, w.multi.clients)

ListRemove(list, c) == SelectSeq(list, LAMBDA x : x # c)

bluealsa_pcm_multi_remove_client(w, c) ==
    bluealsa_pcm_client_free(
        [w EXCEPT !.multi.clients = ListRemove(@, c), !.multi.client_count = @ - 1], c)

bluealsa_pcm_multi_stop_if_no_clients(w) ==
    [ba_transport_pcm_release(w) EXCEPT !.pcm.signal = "CLOSE"]

\* the clients without buffer, which every capture client is, are initialised
RECURSIVE bluealsa_pcm_multi_init_clients(_, _)
bluealsa_pcm_multi_init_clients(w, list) ==
    IF list = << >> THEN w
    ELSE bluealsa_pcm_multi_init_clients(
             IF w.cl[Head(list)].buffer_size = 0
             THEN bluealsa_pcm_client_init(w, Head(list)) ELSE w,
             Tail(list))

bluealsa_pcm_multi_init(w, format, channels, period_frames) ==
    LET w1 == [w EXCEPT !.multi.state = "INIT",
                        !.multi.period_frames = period_frames,
                        !.multi.period_bytes =
                            period_frames * channels * BA_TRANSPORT_PCM_FORMAT_BYTES(format)]
        w2 == IF w.pcm.mode = "SINK"
              THEN [w1 EXCEPT !.multi.playback_buffer =
                                  bluealsa_mix_buffer_init(format, channels,
                                      BLUEALSA_MULTI_BUFFER_PERIODS * period_frames,
                                      period_frames),
                              !.multi.buffer_ready = FALSE,
                              !.multi.active_count = 0]
              ELSE w1
    IN bluealsa_pcm_multi_init_clients(w2, w2.multi.clients)

\* add_client after its test of client_count, all allocations succeeding: the
\* new world and the value returned. A capture multi that is Finished is reset
\* first. The local rv is assigned only when the event source of the transport
\* PCM is created; with the event source already there the test rv == -1 reads
\* a value never written, which the parameter rv stands for
add_client_unchecked(w, c, rv) ==
    LET w0 == IF w.pcm.mode = "SOURCE" /\ w.multi.state = "FINISHED"
              THEN [w EXCEPT !.multi.state = "INIT"] ELSE w
        w1 == IF w0.pcm.fd = -1 THEN [w0 EXCEPT !.pcm.fd = 0] ELSE w0
        w2 == bluealsa_pcm_client_new(w1, c)
        w3 == IF w2.multi.period_bytes > 0 THEN bluealsa_pcm_client_init(w2, c) ELSE w2
        w4 == [w3 EXCEPT !.multi.clients = << c >> \o @, !.multi.client_count = @ + 1]
    IN IF w0.pcm.fd # -1 /\ rv = -1 THEN [w |-> w1, ret |-> FALSE]
       ELSE [ w |-> IF w.pcm.mode = "SINK"
                    THEN IF w4.multi.state = "FINISHED"
                         THEN [w4 EXCEPT !.multi.state = "INIT"] ELSE w4
                    ELSE IF w4.multi.state = "INIT"
                         THEN [w4 EXCEPT !.multi.state = "RUNNING"] ELSE w4,
              ret |-> TRUE ]

add_client_rv_late(w, c, rv) ==
    IF w.multi.client_count = BLUEALSA_MULTI_MAX_CLIENTS + 1 THEN [w |-> w, ret |-> FALSE]
    ELSE add_client_unchecked(w, c, rv)

\* add_client: nothing is done with BLUEALSA_MULTI_MAX_CLIENTS clients present
add_client_rv(w, c, rv) ==
    IF w.multi.client_count = BLUEALSA_MULTI_MAX_CLIENTS THEN [w |-> w, ret |-> FALSE]
    ELSE add_client_unchecked(w, c, rv)

\* add_client below the client limit where bluealsa_pcm_client_new returns
\* NULL or bluealsa_pcm_client_init fails: the reset of a Finished capture
\* multi and the creation of the event source have been done, the client is
\* not linked, and the path fail closes the event source of the transport PCM
add_client_fail(w, c) ==
    LET w0 == IF w.pcm.mode = "SOURCE" /\ w.multi.state = "FINISHED"
              THEN [w EXCEPT !.multi.state = "INIT"] ELSE w
        w1 == IF w0.pcm.fd = -1 THEN [w0 EXCEPT !.pcm.fd = 0] ELSE w0
    IN [w |-> ba_transport_pcm_release(w1), ret |-> FALSE]

\* add_client where the value read into rv is not -1
bluealsa_pcm_multi_add_client(w, c) == add_client_rv(w, c, 0).w

\* the client loop of bluealsa_pcm_multi_write. The removal of a Finished
\* client frees the list node el, and the loop then reads el->next from the
\* freed node: freed_next tells whether that read still finds the successor
\* ("intact") or not ("lost"), which ends the loop
RECURSIVE multi_write_loop(_, _, _, _)
multi_write_loop(w, list, block, freed_next) ==
    IF list = << >> THEN w
    ELSE LET c == Head(list)
             w1 == IF w.cl[c].state = "RUNNING"
                   THEN bluealsa_pcm_client_write(w, c, block) ELSE w
         IN IF w1.cl[c].state = "FINISHED"
            THEN IF freed_next = "intact"
                 THEN multi_write_loop(bluealsa_pcm_multi_remove_client(w1, c),
                                       Tail(list), block, freed_next)
                 ELSE bluealsa_pcm_multi_remove_client(w1, c)
            ELSE multi_write_loop(w1, Tail(list), block, freed_next)

\* write(multi, buffer, samples): the new world and the count returned
bluealsa_pcm_multi_write(w, block, samples, freed_next) ==
    IF w.multi.state = "FINISHED"
    THEN [w |-> ba_transport_pcm_release(w), ret |-> 0]
    ELSE [w |-> multi_write_loop(w, w.multi.clients, block, freed_next), ret |-> samples]

\* what the stack cell of a scale_array element may hold before it is written:
\* silence, half scale, the identity, in hundredths
StackValues == {0, 50, 100}

\* the contents scale_array can have when its channel loop starts: with soft
\* volume every cell is written, so they do not matter
StackScales(w) ==
    IF w.pcm.soft_volume THEN { w.pcm.scale }
    ELSE [DOMAIN w.pcm.scale -> StackValues]

\* scale_array of bluealsa_pcm_multi_read as passed to bluealsa_mix_buffer_read:
\* with soft volume the scale of every channel; without, 0 is stored for a
\* channel whose scale is 0 and the cells of the other channels are not written
multi_read_scale(w, stack) ==
    IF w.pcm.soft_volume THEN w.pcm.scale
    ELSE [ch \in DOMAIN w.pcm.scale |-> IF w.pcm.scale[ch] = 0 THEN 0 ELSE stack[ch]]

\* a scale_array that holds the identity for every channel that is not muted
multi_read_scale_identity(w, stack) ==
    IF w.pcm.soft_volume THEN w.pcm.scale
    ELSE [ch \in DOMAIN w.pcm.scale |-> IF w.pcm.scale[ch] = 0 THEN 0 ELSE 100]

\* ------------------------------------------------------------ state

VARIABLES
    multi,      \* struct bluealsa_pcm_multi, with the wake-up counter event_fd
    pcm,        \* the transport PCM: mode, event source fd, volume, last signal
    cl,         \* the clients, by slot
    pipe,       \* the data FIFO of each client: bytes in flight, peer end open
    ctl,        \* the control socket of each client: commands in flight, replies
    worker,     \* the mix thread: position, events of the batch being dispatched
    transport,  \* the transport thread inside bluealsa_pcm_multi_read
    hist        \* what the peers have sent and what the transport received

vars == << multi, pcm, cl, pipe, ctl, worker, transport, hist >>

ClientIds == 1 .. MaxClients

World == [multi |-> multi, pcm |-> pcm, cl |-> cl, pipe |-> pipe, ctl |-> ctl]

Commit(w) ==
    /\ multi' = w.multi
    /\ pcm' = w.pcm
    /\ cl' = w.cl
    /\ pipe' = w.pipe
    /\ ctl' = w.ctl

\* the stream parameters of the transport PCM
PcmFormat == "U8"
PcmChannels == 2
PeriodFrames == 1

\* the j-th sample a peer writes to the pipe of client c
ClientSample(c, j) == IF c = 1 THEN 1 + j ELSE -(1 + j)

\* the k-th byte of that stream
ClientByte(format, c, k) ==
    LET bps == BA_TRANSPORT_PCM_FORMAT_BYTES(format)
    IN EncodeSample(format, ClientSample(c, k \div bps))[(k % bps) + 1]

ClientBytes(format, c, from, n) == [i \in 1 .. n |-> ClientByte(format, c, from + i - 1)]

CtrlCommands ==
    { BLUEALSA_PCM_CTRL_DRAIN, BLUEALSA_PCM_CTRL_DROP,
      BLUEALSA_PCM_CTRL_PAUSE, BLUEALSA_PCM_CTRL_RESUME }

\* messages that are none of the four commands: another word, and the first
\* two characters of Drain
OtherMessages == { << "S", "t", "o", "p" >>, << "D", "r" >> }

\* the volume scale of every channel, in hundredths
ScaleOf(channels, scale) == [ch \in 0 .. channels - 1 |-> scale]

\* the multi of a playback PCM after bluealsa_pcm_multi_create and
\* bluealsa_pcm_multi_init, before any client
InitWorldOf(format, channels, period_frames) ==
    bluealsa_pcm_multi_init(
        [ multi |-> [ state |-> "INIT", period_frames |-> 0, period_bytes |-> 0,
                      playback_buffer |-> << >>, clients |-> << >>,
                      client_count |-> 0, active_count |-> 0,
                      buffer_ready |-> FALSE, event_fd |-> << 0, 0 >> ],
          pcm |-> [ mode |-> "SINK", fd |-> -1, soft_volume |-> TRUE,
                    scale |-> ScaleOf(channels, 100), signal |-> "NONE" ],
          cl |-> [c \in ClientIds |-> NoClient],
          pipe |-> [c \in ClientIds |-> [data |-> << >>, writer_open |-> FALSE]],
          ctl |-> [c \in ClientIds |-> [msgs |-> << >>, peer_open |-> FALSE, reply |-> << >>]] ],
        format, channels, period_frames)

\* lim: the clients that may connect, the write calls and control messages the
\* peers may make over all clients, the samples of the transport that hist
\* keeps. hist.sent is what a peer had written when it sent its last command.
InitWith(lim, format, channels, period_frames) ==
    /\ multi = InitWorldOf(format, channels, period_frames).multi
    /\ pcm = InitWorldOf(format, channels, period_frames).pcm
    /\ cl = InitWorldOf(format, channels, period_frames).cl
    /\ pipe = InitWorldOf(format, channels, period_frames).pipe
    /\ ctl = InitWorldOf(format, channels, period_frames).ctl
    /\ worker = [pc |-> "none", batch |-> {}]
    /\ transport = [pc |-> "idle", state |-> "INIT", req |-> 0, start |-> 0,
                    samples |-> 0, n |-> 0, ret |-> -1, errno |-> "PENDING"]
    /\ hist = [ written |-> [c \in ClientIds |-> 0], writes |-> 0, cmds |-> 0,
                sent |-> [c \in ClientIds |-> -1],
                added |-> {}, out |-> << >>, lim |-> lim ]

\* ------------------------------------------------------------ peers

\* the main thread accepts a new client: bluealsa_pcm_multi_add_client, which
\* starts the mix thread when it is not running
AddClient(c) ==
    /\ c \notin hist.added
    /\ Cardinality(hist.added) < hist.lim.clients
    /\ \A x \in ClientIds : x < c => x \in hist.added
    /\ multi.client_count < BLUEALSA_MULTI_MAX_CLIENTS
    /\ LET w == bluealsa_pcm_multi_add_client(
                    [World EXCEPT !.pipe[c] = [data |-> << >>, writer_open |-> TRUE],
                                  !.ctl[c] = [msgs |-> << >>, peer_open |-> TRUE, reply |-> << >>]], c)
       IN Commit(w)
    /\ worker' = IF worker.pc = "none" THEN [worker EXCEPT !.pc = "wait"] ELSE worker
    /\ hist' = [hist EXCEPT !.added = @ \cup {c}]
    /\ UNCHANGED transport

\* a peer writes n more bytes of its stream to its pipe
PeerWrite(c, n) ==
    /\ pipe[c].writer_open
    /\ hist.writes < hist.lim.writes
    /\ pipe' = [pipe EXCEPT ![c].data =
                    @ \o ClientBytes(multi.playback_buffer.format, c, hist.written[c], n)]
    /\ hist' = [hist EXCEPT !.written[c] = @ + n, !.writes = @ + 1]
    /\ UNCHANGED << multi, pcm, cl, ctl, worker, transport >>

\* a peer sends a control command
PeerSend(c, command) ==
    /\ ctl[c].peer_open
    /\ hist.cmds < hist.lim.cmds
    /\ ctl' = [ctl EXCEPT ![c].msgs = Append(@, command)]
    /\ hist' = [hist EXCEPT !.cmds = @ + 1, !.sent[c] = hist.written[c]]
    /\ UNCHANGED << multi, pcm, cl, pipe, worker, transport >>

\* a peer closes its end of the pipe
PeerClosePipe(c) ==
    /\ pipe[c].writer_open
    /\ pipe' = [pipe EXCEPT ![c].writer_open = FALSE]
    /\ UNCHANGED << multi, pcm, cl, ctl, worker, transport, hist >>

\* a peer closes its end of the control socket
PeerCloseControl(c) ==
    /\ ctl[c].peer_open
    /\ ctl' = [ctl EXCEPT ![c].peer_open = FALSE]
    /\ UNCHANGED << multi, pcm, cl, pipe, worker, transport, hist >>

\* the drain timer of a client runs out
TimerExpire(c) ==
    /\ cl[c].drain_timer = "armed"
    /\ cl' = [cl EXCEPT ![c].drain_timer = "expired"]
    /\ UNCHANGED << multi, pcm, pipe, ctl, worker, transport, hist >>

\* ------------------------------------------------------------ mix thread

\* the events epoll_wait reports: the wake-up counter, a pipe that is readable
\* while watched or whose peer has hung up, a control socket with a message or
\* a hang-up, an expired drain timer
ReadyEvents ==
    ( IF multi.event_fd # << 0, 0 >> THEN { << 0, "MULTI" >> } ELSE {} )
    \cup { << c, "PCM" >> : c \in { x \in ClientIds :
              /\ cl[x].pcm_fd # -1
              /\ \/ cl[x].watch /\ pipe[x].data # << >>
                 \/ ~pipe[x].writer_open } }
    \cup { << c, "CONTROL" >> : c \in { x \in ClientIds :
              /\ cl[x].control_fd # -1
              /\ \/ ctl[x].msgs # << >>
                 \/ ~ctl[x].peer_open } }
    \cup { << c, "DRAIN" >> : c \in { x \in ClientIds :
              cl[x].state # "NONE" /\ cl[x].drain_timer = "expired" } }

\* pthread_cond_signal(&multi->cond): a transport thread blocked in
\* pthread_cond_wait goes back to its test
CondSignal(t) == IF t.pc = "blocked" THEN [t EXCEPT !.pc = "test"] ELSE t

\* epoll_wait returns the events that are ready
MixEpollWait ==
    /\ worker.pc = "wait"
    /\ ReadyEvents # {}
    /\ worker' = [worker EXCEPT !.pc = "dispatch", !.batch = ReadyEvents]
    /\ UNCHANGED << multi, pcm, cl, pipe, ctl, transport, hist >>

\* the wake-up event of the batch, which never ends the thread
MixRefillOnly ==
    /\ worker.pc = "dispatch"
    /\ << 0, "MULTI" >> \in worker.batch
    /\ LET w == bluealsa_pcm_multi_update_mix([World EXCEPT !.multi.event_fd = << 0, 0 >>])
       IN Commit([w EXCEPT !.multi.buffer_ready = TRUE])
    /\ transport' = CondSignal(transport)
    /\ worker' = [pc |-> "post_count", batch |-> {}]
    /\ UNCHANGED hist

\* the wake-up event of the batch: read the counter, which resets it. From
\* 0xDEAD0000 on the thread terminates: the multi is Finished, the condition
\* is signalled and the transport is woken, all without buffer_mutex. Else,
\* under buffer_mutex (which a transport thread between its test and its
\* pthread_cond_wait holds), refill the mix from every client, set
\* buffer_ready, signal, and leave the batch
MixRefill ==
    /\ worker.pc = "dispatch"
    /\ << 0, "MULTI" >> \in worker.batch
    /\ IF multi.event_fd[1] >= ShutdownHigh
       THEN /\ Commit(bluealsa_pcm_multi_wake_transport(
                    [World EXCEPT !.multi.event_fd = << 0, 0 >>, !.multi.state = "FINISHED"]))
            /\ worker' = [pc |-> "terminated", batch |-> {}]
       ELSE /\ transport.pc # "towait"
            /\ LET w == bluealsa_pcm_multi_update_mix([World EXCEPT !.multi.event_fd = << 0, 0 >>])
               IN Commit([w EXCEPT !.multi.buffer_ready = TRUE])
            /\ worker' = [pc |-> "post_count", batch |-> {}]
    /\ transport' = CondSignal(transport)
    /\ UNCHANGED hist

\* a client event of the batch: run its handler; a client that is Finished
\* afterwards is removed and the batch is left
MixClientEvent(c, type) ==
    /\ worker.pc = "dispatch"
    /\ << c, type >> \in worker.batch
    /\ LET w == bluealsa_pcm_client_handle_event(World, c, type)
           finished == w.cl[c].state = "FINISHED"
           rest == worker.batch \ { << c, type >> }
       IN /\ Commit(IF finished THEN bluealsa_pcm_multi_remove_client(w, c) ELSE w)
          /\ worker' = [ pc |-> IF finished \/ rest = {} THEN "post_count" ELSE "dispatch",
                         batch |-> IF finished THEN {} ELSE rest ]
    /\ UNCHANGED << transport, hist >>

\* after the batch: with no client left the multi is Finished, the mix is
\* cleared and the transport is told to close
MixPostCount ==
    /\ worker.pc = "post_count"
    /\ IF multi.client_count = 0
       THEN /\ Commit(bluealsa_pcm_multi_stop_if_no_clients(
                    [World EXCEPT !.multi.state = "FINISHED",
                                  !.multi.playback_buffer = bluealsa_mix_buffer_clear(@)]))
            /\ worker' = [worker EXCEPT !.pc = "wait"]
       ELSE /\ UNCHANGED << multi, pcm, cl, pipe, ctl >>
            /\ worker' = [worker EXCEPT !.pc = "post_drop"]
    /\ UNCHANGED << transport, hist >>

\* after the batch: a pending drop of the only client clears the mix
MixPostDrop ==
    /\ worker.pc = "post_drop"
    /\ IF multi.client_count = 1 /\ cl[Head(multi.clients)].drop
       THEN /\ multi' = [multi EXCEPT !.playback_buffer = bluealsa_mix_buffer_clear(@)]
            /\ pcm' = [pcm EXCEPT !.signal = "DROP"]
            /\ cl' = [cl EXCEPT ![Head(multi.clients)].drop = FALSE]
       ELSE UNCHANGED << multi, pcm, cl >>
    /\ worker' = [worker EXCEPT !.pc = "post_state"]
    /\ UNCHANGED << pipe, ctl, transport, hist >>

\* after the batch: start the transport once the mix is at its threshold,
\* fall back to Init when the mix has run empty, else wake the transport
MixPostState ==
    /\ worker.pc = "post_state"
    /\ IF multi.state = "INIT"
       THEN IF multi.active_count > 0
            THEN LET w == bluealsa_pcm_multi_update_mix(World)
                 IN IF bluealsa_mix_buffer_at_threshold(w.multi.playback_buffer)
                    THEN Commit(bluealsa_pcm_multi_wake_transport(
                                    [w EXCEPT !.multi.state = "RUNNING"]))
                    ELSE Commit(w)
            ELSE UNCHANGED << multi, pcm, cl, pipe, ctl >>
       ELSE IF multi.state = "RUNNING"
            THEN IF bluealsa_mix_buffer_empty(multi.playback_buffer)
                 THEN /\ multi' = [multi EXCEPT !.state = "INIT"]
                      /\ UNCHANGED << pcm, cl, pipe, ctl >>
                 ELSE Commit(bluealsa_pcm_multi_wake_transport(World))
            ELSE UNCHANGED << multi, pcm, cl, pipe, ctl >>
    /\ worker' = [worker EXCEPT !.pc = "wait"]
    /\ UNCHANGED << transport, hist >>

\* ------------------------------------------------------------ transport thread

\* the transport thread finds the PCM event source readable and calls
\* bluealsa_pcm_multi_read; up to the wait: clear the PCM event, post the
\* wake-up for the mix thread
ReadBegin(samples) ==
    /\ transport.pc = "idle"
    /\ pcm.fd > 0
    /\ pcm' = [pcm EXCEPT !.fd = 0]
    /\ multi' = [multi EXCEPT !.event_fd = << @[1] + (@[2] + 1) \div 65536, (@[2] + 1) % 65536 >>]
    /\ transport' = [transport EXCEPT !.pc = "test", !.req = samples,
                                      !.ret = -1, !.errno = "PENDING"]
    /\ UNCHANGED << cl, pipe, ctl, worker, hist >>

\* the transport thread calls bluealsa_pcm_multi_read on a PCM that has no
\* event source: EBADF, and nothing else is done
ReadBadf ==
    /\ transport.pc = "idle"
    /\ pcm.fd = -1
    /\ transport' = [transport EXCEPT !.ret = -1, !.errno = "EBADF"]
    /\ UNCHANGED << multi, pcm, cl, pipe, ctl, worker, hist >>

\* the test of the wait loop, under buffer_mutex: block while the multi is
\* Running and the buffer is not ready, else take the state and clear
\* buffer_ready
ReadTest ==
    /\ transport.pc = "test"
    /\ IF multi.state = "RUNNING" /\ ~multi.buffer_ready
       THEN /\ transport' = [transport EXCEPT !.pc = "blocked"]
            /\ UNCHANGED multi
       ELSE /\ transport' = [transport EXCEPT !.pc = "switch", !.state = multi.state]
            /\ multi' = [multi EXCEPT !.buffer_ready = FALSE]
    /\ UNCHANGED << pcm, cl, pipe, ctl, worker, hist >>

\* the test of the wait loop and the call of pthread_cond_wait as two steps:
\* the test that finds the multi Running and the buffer not ready goes on to
\* call pthread_cond_wait, still holding buffer_mutex
ReadCheck ==
    IF multi.state = "RUNNING" /\ ~multi.buffer_ready
    THEN /\ transport.pc = "test"
         /\ transport' = [transport EXCEPT !.pc = "towait"]
         /\ UNCHANGED << multi, pcm, cl, pipe, ctl, worker, hist >>
    ELSE ReadTest

\* pthread_cond_wait: buffer_mutex is released and the thread blocks until the
\* condition is signalled; a signal sent before this step is not seen
ReadWait ==
    /\ transport.pc = "towait"
    /\ transport' = [transport EXCEPT !.pc = "blocked"]
    /\ UNCHANGED << multi, pcm, cl, pipe, ctl, worker, hist >>

\* a switch that answers 0 in Init as it does when Finished
ReadSwitchZero ==
    /\ transport.pc = "switch"
    /\ transport' = [transport EXCEPT !.pc = "idle", !.ret = 0, !.errno = "NONE"]
    /\ pcm' = IF transport.state = "FINISHED" THEN ba_transport_pcm_release(World).pcm ELSE pcm
    /\ UNCHANGED << multi, cl, pipe, ctl, worker, hist >>

\* the switch on the state taken: Running enters bluealsa_mix_buffer_read,
\* which takes its snapshot of mix_offset and end and clips the count
ReadSwitch ==
    /\ transport.pc = "switch"
    /\ CASE transport.state = "RUNNING" ->
              /\ transport' = [transport EXCEPT !.pc = "loop",
                      !.start = multi.playback_buffer.mix_offset,
                      !.samples = mix_read_clip(multi.playback_buffer, transport.req)]
              /\ UNCHANGED pcm
         [] transport.state = "FINISHED" ->
              /\ transport' = [transport EXCEPT !.pc = "idle", !.ret = 0, !.errno = "NONE"]
              /\ pcm' = ba_transport_pcm_release(World).pcm
         [] transport.state = "INIT" ->
              /\ transport' = [transport EXCEPT !.pc = "idle", !.ret = -1, !.errno = "EAGAIN"]
              /\ UNCHANGED pcm
         [] OTHER ->
              /\ transport' = [transport EXCEPT !.pc = "idle", !.ret = -1, !.errno = "EIO"]
              /\ UNCHANGED pcm
    /\ UNCHANGED << multi, cl, pipe, ctl, worker, hist >>

\* the frame loop of bluealsa_mix_buffer_read
ReadLoop ==
    /\ transport.pc = "loop"
    /\ \E stack \in StackScales(World) :
       LET loop == mix_read_loop(multi.playback_buffer, multi.playback_buffer.data,
                                 transport.start, 0, transport.samples,
                                 multi_read_scale(World, stack), << >>)
       IN /\ multi' = [multi EXCEPT !.playback_buffer.data = loop.data]
          /\ transport' = [transport EXCEPT !.pc = "store", !.start = loop.start, !.n = loop.n]
          /\ hist' = [hist EXCEPT !.out =
                 SubSeq(@ \o SubSeq(loop.out, 1, transport.samples), 1,
                        Min(hist.lim.out, Len(@) + transport.samples))]
    /\ UNCHANGED << pcm, cl, pipe, ctl, worker >>

\* the store of mix_offset that ends bluealsa_mix_buffer_read, and the return
ReadStore ==
    /\ transport.pc = "store"
    /\ multi' = [multi EXCEPT !.playback_buffer.mix_offset = transport.start + transport.n]
    /\ transport' = [transport EXCEPT !.pc = "idle",
            !.ret = IF transport.samples = 0 THEN -1 ELSE transport.samples,
            !.errno = IF transport.samples = 0 THEN "EAGAIN" ELSE "NONE"]
    /\ UNCHANGED << pcm, cl, pipe, ctl, worker, hist >>

\* ------------------------------------------------------------ specification

PeerNext(sizes, commands) ==
    \/ \E c \in ClientIds : AddClient(c)
    \/ \E c \in ClientIds, n \in sizes : PeerWrite(c, n)
    \/ \E c \in ClientIds, command \in commands : PeerSend(c, command)

HangupNext ==
    \/ \E c \in ClientIds : PeerClosePipe(c)
    \/ \E c \in ClientIds : PeerCloseControl(c)

TimerNext == \E c \in ClientIds : TimerExpire(c)

WorkerNext ==
    \/ MixEpollWait
    \/ MixRefill
    \/ \E c \in ClientIds, type \in {"PCM", "CONTROL", "DRAIN"} : MixClientEvent(c, type)
    \/ MixPostCount
    \/ MixPostDrop
    \/ MixPostState

\* the transport thread asks for one period at a time
TransportNext ==
    \/ ReadBegin(multi.playback_buffer.period)
    \/ ReadTest
    \/ ReadSwitch
    \/ ReadLoop
    \/ ReadStore

\* one playback client, U8 stereo with a period of one frame; every control
\* command, one at most; writes of a partial frame, of one period and of a
\* full client buffer
Init ==
    InitWith([clients |-> 1, writes |-> SpecWrites, cmds |-> SpecCmds, out |-> SpecOut],
             PcmFormat, PcmChannels, PeriodFrames)

Next ==
    \/ PeerNext({1, multi.period_bytes, BLUEALSA_CLIENT_BUFFER_PERIODS * multi.period_bytes},
                CtrlCommands)
    \/ HangupNext
    \/ TimerNext
    \/ WorkerNext
    \/ TransportNext

Spec == Init /\ [][Next]_vars

\* ------------------------------------------------------------ one stream
\*
\* One playback client that only writes: no control command, no hang-up. The
\* peer splits its stream into writes of a partial frame, of a full client
\* buffer and of one byte less.

StreamWrites == 3
StreamOut == 12

InitStream ==
    InitWith([clients |-> 1, writes |-> StreamWrites, cmds |-> 0, out |-> StreamOut],
             PcmFormat, PcmChannels, PeriodFrames)

NextStream ==
    \/ \E c \in ClientIds : AddClient(c)
    \/ \E c \in ClientIds :
        \E n \in {1, BLUEALSA_CLIENT_BUFFER_PERIODS * multi.period_bytes - 1,
                  BLUEALSA_CLIENT_BUFFER_PERIODS * multi.period_bytes} : PeerWrite(c, n)
    \/ WorkerNext
    \/ TransportNext

SpecStream == InitStream /\ [][NextStream]_vars

\* ------------------------------------------------------------ drain
\*
\* One playback client, S16_2LE mono with a period of two frames (period_bytes
\* 4, client buffer 12 bytes, start threshold above 8 bytes). The peer writes
\* half a frame, one and a half periods or a full client buffer, and sends
\* Drain once; it never hangs up.

DrainFormat == "S16_2LE"
DrainChannels == 1
DrainPeriodFrames == 2
DrainWrites == 2
DrainOut == 10

InitDrain ==
    InitWith([clients |-> 1, writes |-> DrainWrites, cmds |-> 1, out |-> DrainOut],
             DrainFormat, DrainChannels, DrainPeriodFrames)

NextDrain ==
    \/ \E c \in ClientIds : AddClient(c)
    \/ \E c \in ClientIds :
        \E n \in {1, (3 * multi.period_bytes) \div 2,
                  BLUEALSA_CLIENT_BUFFER_PERIODS * multi.period_bytes} : PeerWrite(c, n)
    \/ \E c \in ClientIds : PeerSend(c, BLUEALSA_PCM_CTRL_DRAIN)
    \/ TimerNext
    \/ WorkerNext
    \/ TransportNext

SpecDrain == InitDrain /\ [][NextDrain]_vars

\* the mix thread can take a step: it is inside a batch or epoll_wait has an
\* event to report
WorkerCanStep ==
    \/ worker.pc \in {"dispatch", "post_count", "post_drop", "post_state"}
    \/ worker.pc = "wait" /\ ReadyEvents # {}

\* a step of the mix thread, told by what it does to worker: in a behaviour of
\* SpecDrain the steps that change worker while WorkerCanStep holds are the
\* steps of WorkerNext, and WorkerNext is enabled exactly when WorkerCanStep
\* holds
WorkerStep ==
    /\ WorkerCanStep
    /\ \E pc \in {"wait", "dispatch", "post_count", "post_drop", "post_state", "terminated"},
          batch \in SUBSET (worker.batch \cup ReadyEvents) :
            /\ worker' = [pc |-> pc, batch |-> batch]
            /\ worker' # worker

\* the mix thread handles the events epoll reports, the transport thread reads
\* when its PCM is signalled, an armed timer runs out
SpecDrainFair ==
    /\ SpecDrain
    /\ WF_worker(WorkerStep)
    /\ WF_vars(TransportNext)
    /\ WF_vars(TimerNext)

\* ------------------------------------------------------------ control
\*
\* One playback client, U8 stereo with a period of one frame, that fills its
\* buffer once and sends two control messages, commands or not; it never
\* hangs up.

CtlCmds == 2

InitCtl ==
    InitWith([clients |-> 1, writes |-> 1, cmds |-> CtlCmds, out |-> SpecOut],
             PcmFormat, PcmChannels, PeriodFrames)

NextCtl ==
    \/ \E c \in ClientIds : AddClient(c)
    \/ \E c \in ClientIds : PeerWrite(c, BLUEALSA_CLIENT_BUFFER_PERIODS * multi.period_bytes)
    \/ \E c \in ClientIds, command \in CtrlCommands \cup OtherMessages : PeerSend(c, command)
    \/ TimerNext
    \/ WorkerNext
    \/ TransportNext

SpecCtl == InitCtl /\ [][NextCtl]_vars

\* ------------------------------------------------------------ hang-up
\*
\* One playback client, U8 stereo with a period of one frame, whose peer fills
\* the client buffer once, sends up to two commands out of Drain and
\* Pause, and may close its end of the pipe or of the control socket at any
\* time. What the transport reads is not recorded.

HangWrites == 1
HangCmds == 2

InitHang ==
    InitWith([clients |-> 1, writes |-> HangWrites, cmds |-> HangCmds, out |-> 0],
             PcmFormat, PcmChannels, PeriodFrames)

NextHang ==
    \/ PeerNext({BLUEALSA_CLIENT_BUFFER_PERIODS * multi.period_bytes},
                {BLUEALSA_PCM_CTRL_DRAIN, BLUEALSA_PCM_CTRL_PAUSE})
    \/ HangupNext
    \/ TimerNext
    \/ WorkerNext
    \/ TransportNext
    \/ ReadBadf

SpecHang == InitHang /\ [][NextHang]_vars

\* the mix thread handles the events epoll reports, the transport thread reads
\* when its PCM is signalled, an armed timer runs out
SpecHangFair ==
    /\ SpecHang
    /\ WF_worker(WorkerStep)
    /\ WF_vars(TransportNext)
    /\ WF_vars(TimerNext)

\* ------------------------------------------------------------ pause and resume
\*
\* One playback client, U8 stereo with a period of one frame, whose peer fills
\* the client buffer up to twice and sends up to two commands out of Pause and
\* Resume; it never hangs up. What the transport reads is not recorded.

PauseWrites == 2
PauseCmds == 2

InitPause ==
    InitWith([clients |-> 1, writes |-> PauseWrites, cmds |-> PauseCmds, out |-> 0],
             PcmFormat, PcmChannels, PeriodFrames)

NextPause ==
    \/ PeerNext({BLUEALSA_CLIENT_BUFFER_PERIODS * multi.period_bytes},
                {BLUEALSA_PCM_CTRL_PAUSE, BLUEALSA_PCM_CTRL_RESUME})
    \/ WorkerNext
    \/ TransportNext

SpecPause == InitPause /\ [][NextPause]_vars

\* the mix thread handles the events epoll reports, the transport thread reads
\* when its PCM is signalled
SpecPauseFair ==
    /\ SpecPause
    /\ WF_worker(WorkerStep)
    /\ WF_vars(TransportNext)

\* ------------------------------------------------------------ drop with two clients
\*
\* Two playback clients, U8 stereo with a period of one frame. One peer fills
\* its client buffer once, one sends Drop, and either may hang up. The
\* transport thread does not read: the mix thread gets client events only.

InitDrop ==
    InitWith([clients |-> 2, writes |-> 1, cmds |-> 1, out |-> 0],
             PcmFormat, PcmChannels, PeriodFrames)

NextDrop ==
    \/ PeerNext({BLUEALSA_CLIENT_BUFFER_PERIODS * multi.period_bytes}, {BLUEALSA_PCM_CTRL_DROP})
    \/ HangupNext
    \/ MixEpollWait
    \/ \E c \in ClientIds, type \in {"PCM", "CONTROL"} : MixClientEvent(c, type)
    \/ MixPostCount
    \/ MixPostDrop
    \/ MixPostState

SpecDrop == InitDrop /\ [][NextDrop]_vars

\* ------------------------------------------------------------ back-pressure
\*
\* One playback client, U8 stereo with a period of one frame, whose peer keeps
\* writing (one byte, one period or a full client buffer at a time) while the
\* transport thread never calls bluealsa_pcm_multi_read: the mix thread gets
\* client events only.

BackWrites == 4

InitBack ==
    InitWith([clients |-> 1, writes |-> BackWrites, cmds |-> 0, out |-> 0],
             PcmFormat, PcmChannels, PeriodFrames)

NextBack ==
    \/ \E c \in ClientIds : AddClient(c)
    \/ \E c \in ClientIds :
        \E n \in {1, multi.period_bytes,
                  BLUEALSA_CLIENT_BUFFER_PERIODS * multi.period_bytes} : PeerWrite(c, n)
    \/ MixEpollWait
    \/ \E c \in ClientIds : MixClientEvent(c, "PCM")
    \/ MixPostCount
    \/ MixPostDrop
    \/ MixPostState

SpecBack == InitBack /\ [][NextBack]_vars

\* ------------------------------------------------------------ mix buffer under its callers
\*
\* The handlers that drive the mix buffer, run one at a time on two playback
\* clients: the pipe handler, bluealsa_pcm_multi_update_mix, the refill and
\* bluealsa_mix_buffer_read of one bluealsa_pcm_multi_read, Pause and Resume.
\* Each action is the whole call; hist keeps what each call was given and what
\* it returned.

\* the stream parameters tried: format and channels
MixConfigs == { << "U8", 1 >>, << "U8", 2 >>, << "S16_2LE", 2 >>, << "S24_4LE", 2 >> }

\* the sample values client c may write: the extremes of the format and a
\* value whose negation the other client may write
MixValues(format, c) ==
    IF c = 1
    THEN { FormatMax(format), FormatMin(format), IF format = "U8" THEN 100 ELSE 1000 }
    ELSE { FormatMax(format), IF format = "U8" THEN -100 ELSE -1000 }

\* n bytes of a stream whose samples all have the value v
ValueBytes(format, v, n) ==
    LET bps == BA_TRANSPORT_PCM_FORMAT_BYTES(format)
    IN [i \in 1 .. n |-> EncodeSample(format, v)[((i - 1) % bps) + 1]]

\* the ring position of a client cursor: a negative cursor is ahead of the
\* mix head by its magnitude
CursorPosition(buffer, offset) ==
    (IF offset < 0 THEN buffer.mix_offset - offset ELSE offset) % buffer.size

\* the wrap-aware distance from the mix head to a client cursor
CursorDistance(buffer, offset) ==
    (CursorPosition(buffer, offset) - buffer.mix_offset) % buffer.size

\* what one bluealsa_pcm_multi_update_mix added to ring cell i for client c:
\* the samples deliver took from the buffer of the client lie from its cursor
\* on, one cell each
Added(before, after, c, i) ==
    LET buffer == before.multi.playback_buffer
        taken == before.cl[c].in_offset - after.cl[c].in_offset
        samples == taken \div BA_TRANSPORT_PCM_FORMAT_BYTES(buffer.format)
        j == (i - CursorPosition(buffer, before.cl[c].out_offset)) % buffer.size
    IN IF before.cl[c].state = "RUNNING" /\ j < samples
       THEN DecodeSample(buffer.format, before.cl[c].buffer, j)
       ELSE 0

RECURSIVE AddedUpTo(_, _, _, _)
AddedUpTo(before, after, c, i) ==
    IF c = 0 THEN 0
    ELSE Added(before, after, c, i) + AddedUpTo(before, after, c - 1, i)

\* per ring cell, the sum of the samples added since the cell was last read
SumUpdate(sum, before, after) ==
    [i \in DOMAIN sum |-> sum[i] + AddedUpTo(before, after, MaxClients, i)]

\* the cells of the frames a read of ret samples from the mix head consumes
FramesRead(buffer, ret) ==
    LET frames == (ret + buffer.channels - 1) \div buffer.channels
    IN { (buffer.mix_offset + j) % buffer.size : j \in 0 .. frames * buffer.channels - 1 }

\* two clients connected to a multi whose mix is empty, at the start of the
\* ring or two frames before its end (where an earlier stream has left it);
\* each client has a stream of one sample value to write
InitMix ==
    \E config \in MixConfigs, late \in BOOLEAN,
       value \in [ClientIds -> UNION { MixValues(f[1], c) : f \in MixConfigs, c \in ClientIds }] :
        LET format == config[1]
            channels == config[2]
            open(w, c) == [w EXCEPT !.pipe[c] = [data |-> << >>, writer_open |-> TRUE],
                                    !.ctl[c] = [msgs |-> << >>, peer_open |-> TRUE, reply |-> << >>]]
            w1 == bluealsa_pcm_multi_add_client(open(InitWorldOf(format, channels, PeriodFrames), 1), 1)
            w2 == bluealsa_pcm_multi_add_client(open(w1, 2), 2)
            size == w2.multi.playback_buffer.size
            at == IF late THEN size - 2 * channels ELSE 0
        IN /\ \A c \in ClientIds : value[c] \in MixValues(format, c)
           /\ multi = [w2.multi EXCEPT !.playback_buffer.mix_offset = at,
                                       !.playback_buffer.end = at]
           /\ pcm = w2.pcm
           /\ cl = w2.cl
           /\ pipe = w2.pipe
           /\ ctl = w2.ctl
           /\ worker = [pc |-> "wait", batch |-> {}]
           /\ transport = [pc |-> "idle", state |-> "INIT", req |-> 0, start |-> 0,
                           samples |-> 0, n |-> 0, ret |-> -1, errno |-> "PENDING"]
           /\ hist = [ ops |-> 0, lim |-> [ops |-> MixOps], value |-> value,
                       sum |-> [i \in 0 .. size - 1 |-> 0],
                       last |-> [op |-> "none"] ]

\* the peer of client c writes n bytes of its stream, which fit the client
\* buffer, and the pipe handler runs
MixPipe(c, n) ==
    /\ hist.ops < hist.lim.ops
    /\ cl[c].watch
    /\ n > 0
    /\ n <= cl[c].buffer_size - cl[c].in_offset
    /\ LET format == multi.playback_buffer.format
           w == bluealsa_pcm_client_handle_playback_pcm(
                    [World EXCEPT !.pipe[c].data = @ \o ValueBytes(format, hist.value[c], n)], c)
       IN Commit(w)
    /\ hist' = [hist EXCEPT !.ops = @ + 1, !.last = [op |-> "pipe", client |-> c]]
    /\ UNCHANGED << worker, transport >>

\* bluealsa_pcm_multi_update_mix as the mix thread runs it after a batch
MixUpdate ==
    /\ hist.ops < hist.lim.ops
    /\ multi.active_count > 0
    /\ LET w == bluealsa_pcm_multi_update_mix(World)
       IN /\ Commit(w)
          /\ hist' = [hist EXCEPT !.ops = @ + 1, !.last = [op |-> "update"],
                                  !.sum = SumUpdate(@, World, w)]
    /\ UNCHANGED << worker, transport >>

\* what hist keeps of a read: the mix head and the samples available before
\* it, the samples returned and the sums of their cells
ReadHistory(h, before, sum, cells, out, ret) ==
    [h EXCEPT
        !.ops = @ + 1,
        !.sum = [i \in DOMAIN sum |-> IF i \in cells THEN 0 ELSE sum[i]],
        !.last = [ op |-> "read",
                   from |-> before.mix_offset,
                   avail |-> bluealsa_mix_buffer_calc_avail(before, before.mix_offset, before.end),
                   sums |-> [i \in 1 .. ret |-> sum[(before.mix_offset + i - 1) % before.size]],
                   out |-> out, ret |-> ret ]]

\* one bluealsa_pcm_multi_read: the mix thread refills the mix, then the
\* transport thread reads up to req samples with the volume scale of the PCM
MixRead(req) ==
    /\ hist.ops < hist.lim.ops
    /\ \E stack \in StackScales(World) :
       LET w == bluealsa_pcm_multi_update_mix(World)
           before == w.multi.playback_buffer
           rd == bluealsa_mix_buffer_read(before, req, multi_read_scale(World, stack))
           sum == SumUpdate(hist.sum, World, w)
       IN /\ Commit([w EXCEPT !.multi.playback_buffer = rd.buffer])
          /\ hist' = ReadHistory(hist, before, sum, FramesRead(before, rd.ret), rd.out, rd.ret)
    /\ UNCHANGED << worker, transport >>

\* the peer of client c sends Pause or Resume and the control handler runs
MixControl(c, command) ==
    /\ hist.ops < hist.lim.ops
    /\ cl[c].state \in {"INIT", "RUNNING", "PAUSED"}
    /\ Commit(bluealsa_pcm_client_handle_control(
                  [World EXCEPT !.ctl[c].msgs = << command >>, !.ctl[c].reply = << >>], c))
    /\ hist' = [hist EXCEPT !.ops = @ + 1,
                            !.last = [op |-> "control", client |-> c, command |-> command]]
    /\ UNCHANGED << worker, transport >>

NextMix ==
    \/ \E c \in ClientIds :
          \E n \in {cl[c].buffer_size - cl[c].in_offset - 1,
                    cl[c].buffer_size - cl[c].in_offset} : MixPipe(c, n)
    \/ MixUpdate
    \/ \E req \in {multi.playback_buffer.period, multi.playback_buffer.period + 1} :
          MixRead(req)
    \/ \E c \in ClientIds,
          command \in {BLUEALSA_PCM_CTRL_PAUSE, BLUEALSA_PCM_CTRL_RESUME} : MixControl(c, command)

SpecMix == InitMix /\ [][NextMix]_vars

\* ------------------------------------------------------------ volume
\*
\* The callers of the mix buffer as above on a stereo S16_2LE stream, where the
\* transport PCM has soft volume on or off and each channel is muted, at half
\* scale or at full scale.

VolumeOps == 3

InitVolume ==
    \E soft_volume \in BOOLEAN, scale \in [0 .. 1 -> {0, 50, 100}] :
        LET open(w, c) == [w EXCEPT !.pipe[c] = [data |-> << >>, writer_open |-> TRUE],
                                    !.ctl[c] = [msgs |-> << >>, peer_open |-> TRUE, reply |-> << >>]]
            w1 == bluealsa_pcm_multi_add_client(open(InitWorldOf("S16_2LE", 2, PeriodFrames), 1), 1)
            w2 == bluealsa_pcm_multi_add_client(open(w1, 2), 2)
        IN /\ multi = w2.multi
           /\ pcm = [w2.pcm EXCEPT !.soft_volume = soft_volume, !.scale = scale]
           /\ cl = w2.cl
           /\ pipe = w2.pipe
           /\ ctl = w2.ctl
           /\ worker = [pc |-> "wait", batch |-> {}]
           /\ transport = [pc |-> "idle", state |-> "INIT", req |-> 0, start |-> 0,
                           samples |-> 0, n |-> 0, ret |-> -1, errno |-> "PENDING"]
           /\ hist = [ ops |-> 0, lim |-> [ops |-> VolumeOps],
                       value |-> [c \in ClientIds |-> IF c = 1 THEN 1000 ELSE 300],
                       sum |-> [i \in 0 .. w2.multi.playback_buffer.size - 1 |-> 0],
                       last |-> [op |-> "none"] ]

SpecVolume == InitVolume /\ [][NextMix]_vars

\* ------------------------------------------------------------ capture
\*
\* Two capture clients on a multi of a capture PCM, U8 stereo with a period of
\* one frame. Each action is a whole call: bluealsa_pcm_multi_write of one
\* period by the transport thread, the handling of a hang-up or of Pause and
\* Resume by the snoop thread; the peers read their pipe empty or close it.

CaptureOps == 5

\* the multi of a capture PCM after create and init, which has no mix buffer,
\* with two clients added
InitCapture ==
  \E initialised \in BOOLEAN :
    LET open(w, c) == [w EXCEPT !.pipe[c] = [data |-> << >>, writer_open |-> TRUE],
                                !.ctl[c] = [msgs |-> << >>, peer_open |-> TRUE, reply |-> << >>]]
        wi == [InitWorldOf(PcmFormat, PcmChannels, PeriodFrames)
                  EXCEPT !.pcm.mode = "SOURCE", !.multi.playback_buffer = << >>]
        w0 == IF initialised THEN wi
              ELSE [wi EXCEPT !.multi.period_frames = 0, !.multi.period_bytes = 0]
        w1 == bluealsa_pcm_multi_add_client(open(w0, 1), 1)
        w2 == bluealsa_pcm_multi_add_client(open(w1, 2), 2)
    IN /\ multi = w2.multi
       /\ pcm = w2.pcm
       /\ cl = w2.cl
       /\ pipe = w2.pipe
       /\ ctl = w2.ctl
       /\ worker = [pc |-> "wait", batch |-> {}]
       /\ transport = [pc |-> "idle", state |-> "INIT", req |-> 0, start |-> 0,
                       samples |-> 0, n |-> 0, ret |-> -1, errno |-> "PENDING"]
       /\ hist = [ops |-> 0, lim |-> [ops |-> CaptureOps], last |-> [op |-> "none"]]

\* the transport thread writes one period of decoded samples, each byte of
\* which tells the write it belongs to
CaptureWrite(freed_next) ==
    /\ hist.ops < hist.lim.ops
    /\ multi.period_bytes > 0
    /\ LET samples == multi.period_frames * PcmChannels
           block == [i \in 1 .. multi.period_bytes |-> hist.ops + 1]
           wr == bluealsa_pcm_multi_write(World, block, samples, freed_next)
       IN /\ Commit(wr.w)
          /\ hist' = [hist EXCEPT !.ops = @ + 1,
                        !.last = [op |-> "write", block |-> block,
                                  samples |-> samples, ret |-> wr.ret]]
    /\ UNCHANGED << worker, transport >>

\* the peer of a capture client reads its pipe empty
CapturePeerRead(c) ==
    /\ pipe[c].writer_open
    /\ pipe[c].data # << >>
    /\ pipe' = [pipe EXCEPT ![c].data = << >>]
    /\ UNCHANGED << multi, pcm, cl, ctl, worker, transport, hist >>

\* the snoop thread finds EPOLLHUP or EPOLLERR on a descriptor of client c:
\* close event, removal, and the stop of a multi without clients
CaptureHangup(c, type) ==
    /\ pcm.mode = "SOURCE"
    /\ cl[c].state # "NONE"
    /\ IF type = "PCM" THEN cl[c].pcm_fd # -1 /\ ~pipe[c].writer_open
       ELSE cl[c].control_fd # -1 /\ ~ctl[c].peer_open
    /\ LET w == bluealsa_pcm_multi_remove_client(
                    bluealsa_pcm_client_handle_close_event(World, c, type), c)
       IN Commit(IF w.multi.client_count = 0
                 THEN bluealsa_pcm_multi_stop_if_no_clients([w EXCEPT !.multi.state = "FINISHED"])
                 ELSE w)
    /\ UNCHANGED << worker, transport, hist >>

\* the transport thread initialises the multi when it starts its I/O
CaptureMultiInit ==
    /\ multi.period_bytes = 0
    /\ Commit(bluealsa_pcm_multi_init(World, PcmFormat, PcmChannels, PeriodFrames))
    /\ UNCHANGED << worker, transport, hist >>

NextCapture ==
    \/ \E freed_next \in {"intact", "lost"} : CaptureWrite(freed_next)
    \/ \E c \in ClientIds : CapturePeerRead(c)
    \/ HangupNext
    \/ \E c \in ClientIds, type \in {"PCM", "CONTROL"} : CaptureHangup(c, type)
    \/ \E c \in ClientIds,
          command \in {BLUEALSA_PCM_CTRL_DRAIN, BLUEALSA_PCM_CTRL_DROP,
                       BLUEALSA_PCM_CTRL_PAUSE, BLUEALSA_PCM_CTRL_RESUME} :
              MixControl(c, command)
    \/ CaptureMultiInit

SpecCapture == InitCapture /\ [][NextCapture]_vars

\* ------------------------------------------------------------ snoop thread
\*
\* Two capture clients, the snoop thread event by event, and the transport
\* thread writing periods. epoll_wait fills the event array of the thread; an
\* event is the client, the descriptor and whether EPOLLHUP or EPOLLERR was
\* reported. The control socket of one client may carry one command.

SnoopOps == 2
SnoopCmds == 1

InitSnoop ==
    LET open(w, c) == [w EXCEPT !.pipe[c] = [data |-> << >>, writer_open |-> TRUE],
                                !.ctl[c] = [msgs |-> << >>, peer_open |-> TRUE, reply |-> << >>]]
        w0 == [InitWorldOf(PcmFormat, PcmChannels, PeriodFrames)
                  EXCEPT !.pcm.mode = "SOURCE", !.multi.playback_buffer = << >>]
        w1 == bluealsa_pcm_multi_add_client(open(w0, 1), 1)
        w2 == bluealsa_pcm_multi_add_client(open(w1, 2), 2)
    IN /\ multi = w2.multi
       /\ pcm = w2.pcm
       /\ cl = w2.cl
       /\ pipe = w2.pipe
       /\ ctl = w2.ctl
       /\ worker = [pc |-> "wait", batch |-> {}]
       /\ transport = [pc |-> "idle", state |-> "INIT", req |-> 0, start |-> 0,
                       samples |-> 0, n |-> 0, ret |-> -1, errno |-> "PENDING"]
       /\ hist = [ops |-> 0, cmds |-> 0, written |-> [c \in ClientIds |-> 0],
                  sent |-> [c \in ClientIds |-> -1],
                  lim |-> [ops |-> SnoopOps, cmds |-> SnoopCmds],
                  last |-> [op |-> "none"]]

\* what epoll_wait reports on a capture multi: the FIFO of a client whose peer
\* has closed its end, a control socket with a message or a hang-up
SnoopReadyEvents ==
    { << c, "PCM", TRUE >> : c \in { x \in ClientIds :
          cl[x].pcm_fd # -1 /\ ~pipe[x].writer_open } }
    \cup { << c, "CONTROL", ~ctl[c].peer_open >> : c \in { x \in ClientIds :
              /\ cl[x].control_fd # -1
              /\ \/ ctl[x].msgs # << >>
                 \/ ~ctl[x].peer_open } }

SnoopEpollWait ==
    /\ worker.pc = "wait"
    /\ SnoopReadyEvents # {}
    /\ worker' = [worker EXCEPT !.pc = "dispatch", !.batch = SnoopReadyEvents]
    /\ UNCHANGED << multi, pcm, cl, pipe, ctl, transport, hist >>

\* the snoop thread takes the next event of its array. A hang-up runs the
\* close handler, removes the client under client_mutex, stops a multi left
\* without clients, and leaves the array; any other event runs the handler of
\* the client. The event points into the client: when the transport thread has
\* freed the client since epoll_wait returned, the handler reads freed memory.
\* That memory either still holds the closed client (the removal then counts
\* client_count down once more, below zero as the unsigned counter wraps, and
\* frees again) or the process aborts
SnoopClientEvent(c, type, hup) ==
    /\ worker.pc = "dispatch"
    /\ << c, type, hup >> \in worker.batch
    /\ hist' = [hist EXCEPT !.last = [op |-> "dispatch", client |-> c, type |-> type]]
    /\ LET rest == worker.batch \ { << c, type, hup >> }
           next == [pc |-> IF rest = {} THEN "wait" ELSE "dispatch", batch |-> rest]
           stop(w) == IF w.multi.client_count = 0
                      THEN bluealsa_pcm_multi_stop_if_no_clients(
                               [w EXCEPT !.multi.state = "FINISHED"])
                      ELSE w
       IN IF cl[c].state = "NONE"
          THEN \E freed \in {"stale", "abort"} :
                 IF freed = "abort"
                 THEN /\ worker' = [pc |-> "aborted", batch |-> {}]
                      /\ UNCHANGED << multi, pcm, cl, pipe, ctl >>
                 ELSE IF hup
                      THEN /\ Commit(stop([World EXCEPT !.multi.client_count = @ - 1]))
                           /\ worker' = [pc |-> "wait", batch |-> {}]
                      ELSE /\ worker' = next
                           /\ UNCHANGED << multi, pcm, cl, pipe, ctl >>
          ELSE IF hup
               THEN /\ Commit(stop(bluealsa_pcm_multi_remove_client(
                               bluealsa_pcm_client_handle_close_event(World, c, type), c)))
                    /\ worker' = [pc |-> "wait", batch |-> {}]
               ELSE /\ LET w == bluealsa_pcm_client_handle_event(World, c, type)
                       IN Commit(IF w.multi.state = "PAUSED" /\ w.multi.active_count > 0
                                 THEN [w EXCEPT !.multi.state = "RUNNING"] ELSE w)
                    /\ worker' = next
    /\ UNCHANGED transport

\* the transport thread writes one period, as long as the process lives
SnoopWrite(freed_next) ==
    /\ worker.pc # "aborted"
    /\ CaptureWrite(freed_next)

NextSnoop ==
    \/ \E freed_next \in {"intact", "lost"} : SnoopWrite(freed_next)
    \/ \E c \in ClientIds : CapturePeerRead(c)
    \/ \E c \in ClientIds : PeerSend(c, BLUEALSA_PCM_CTRL_PAUSE)
    \/ HangupNext
    \/ SnoopEpollWait
    \/ \E c \in ClientIds, type \in {"PCM", "CONTROL"}, hup \in BOOLEAN :
          SnoopClientEvent(c, type, hup)

SpecSnoop == InitSnoop /\ [][NextSnoop]_vars

\* ------------------------------------------------------------ last client
\*
\* A playback multi whose clients come and go: the main thread adds a client
\* under client_mutex while the mix thread, which takes no mutex after its
\* batch, tests client_count and then writes the state.

RaceWrites == 1

InitRace ==
    InitWith([clients |-> 2, writes |-> RaceWrites, cmds |-> 0, out |-> 0],
             PcmFormat, PcmChannels, PeriodFrames)

\* after the batch, the test of client_count
MixPostCheck ==
    /\ worker.pc = "post_count"
    /\ worker' = [worker EXCEPT !.pc = IF multi.client_count = 0
                                       THEN "post_finish" ELSE "post_drop"]
    /\ UNCHANGED << multi, pcm, cl, pipe, ctl, transport, hist >>

\* after the test that found no client: the multi is Finished, the mix is
\* cleared and the transport is told to close
MixPostFinish ==
    /\ worker.pc = "post_finish"
    /\ Commit(bluealsa_pcm_multi_stop_if_no_clients(
                  [World EXCEPT !.multi.state = "FINISHED",
                                !.multi.playback_buffer = bluealsa_mix_buffer_clear(@)]))
    /\ worker' = [worker EXCEPT !.pc = "wait"]
    /\ UNCHANGED << transport, hist >>

NextRace ==
    \/ \E c \in ClientIds : AddClient(c)
    \/ \E c \in ClientIds : PeerWrite(c, multi.period_bytes)
    \/ HangupNext
    \/ MixEpollWait
    \/ \E c \in ClientIds, type \in {"PCM", "CONTROL"} : MixClientEvent(c, type)
    \/ MixPostCheck
    \/ MixPostFinish
    \/ MixPostDrop
    \/ MixPostState

SpecRace == InitRace /\ [][NextRace]_vars

\* ------------------------------------------------------------ client limit
\*
\* A playback or a capture multi to which all but LimitRoom of the clients it
\* accepts have been added, with one client slot more than it accepts. The
\* main thread calls add_client again and again; the peers of the first
\* clients hang up and the worker removes them: the mix thread step by step,
\* the snoop thread in one step.

LimitRoom == 2

LimitSlots == 1 .. BLUEALSA_MULTI_MAX_CLIENTS + 1

\* the clients whose peers hang up
LimitPeers == {1, 2}

\* add_client called until the multi has n clients
RECURSIVE AddClients(_, _)
AddClients(w, n) ==
    IF w.multi.client_count >= n THEN w
    ELSE AddClients(bluealsa_pcm_multi_add_client(w, w.multi.client_count + 1), n)

InitLimit ==
    \E mode \in {"SINK", "SOURCE"} :
        LET w0 == [InitWorldOf(PcmFormat, PcmChannels, PeriodFrames)
                     EXCEPT !.pcm.mode = mode,
                            !.cl = [c \in LimitSlots |-> NoClient],
                            !.pipe = [c \in LimitSlots |-> [data |-> << >>, writer_open |-> TRUE]],
                            !.ctl = [c \in LimitSlots |->
                                        [msgs |-> << >>, peer_open |-> TRUE, reply |-> << >>]]]
            w == AddClients(w0, BLUEALSA_MULTI_MAX_CLIENTS - LimitRoom)
        IN /\ multi = w.multi
           /\ pcm = w.pcm
           /\ cl = w.cl
           /\ pipe = w.pipe
           /\ ctl = w.ctl
           /\ worker = [pc |-> IF mode = "SINK" THEN "wait" ELSE "none", batch |-> {}]
           /\ transport = [pc |-> "idle", state |-> "INIT", req |-> 0, start |-> 0,
                           samples |-> 0, n |-> 0, ret |-> -1, errno |-> "PENDING"]
           /\ hist = [adds |-> 0, last |-> [op |-> "none"]]

\* the main thread calls add_client with the descriptors of a new peer, for
\* which the first free slot stands; the mix thread of a playback multi is
\* started when it is not running, and the descriptors of a refused peer are
\* closed. hist.adds counts the calls modulo 2
AddClientCall(rv) ==
    /\ \E c \in LimitSlots :
          /\ cl[c].state = "NONE"
          /\ \A x \in LimitSlots : x < c => cl[x].state # "NONE"
          /\ LET r == add_client_rv(
                         [World EXCEPT !.pipe[c] = [data |-> << >>, writer_open |-> TRUE],
                                       !.ctl[c] = [msgs |-> << >>, peer_open |-> TRUE,
                                                   reply |-> << >>]], c, rv)
             IN /\ Commit(IF r.ret THEN r.w ELSE [r.w EXCEPT !.pipe = pipe, !.ctl = ctl])
                /\ worker' = IF r.ret /\ pcm.mode = "SINK" /\ worker.pc = "none"
                             THEN [worker EXCEPT !.pc = "wait"] ELSE worker
                /\ hist' = [hist EXCEPT !.adds = 1 - @,
                                        !.last = [op |-> "add", ret |-> r.ret]]
    /\ UNCHANGED transport

\* the main thread calls add_client below the client limit, and the
\* allocation of the client, the registration of its descriptors or the
\* allocation of its buffer fails; the descriptors of the peer are closed
AddClientFail ==
    /\ multi.client_count < BLUEALSA_MULTI_MAX_CLIENTS
    /\ \E c \in LimitSlots :
          /\ cl[c].state = "NONE"
          /\ \A x \in LimitSlots : x < c => cl[x].state # "NONE"
          /\ Commit(add_client_fail(World, c).w)
    /\ hist' = [hist EXCEPT !.adds = 1 - @, !.last = [op |-> "fail", ret |-> FALSE]]
    /\ UNCHANGED << worker, transport >>

NextLimit ==
    \/ \E rv \in {-1, 0} : AddClientCall(rv)
    \/ AddClientFail
    \/ \E c \in LimitPeers : PeerClosePipe(c) \/ PeerCloseControl(c)
    \/ MixEpollWait
    \/ \E c \in LimitPeers, type \in {"PCM", "CONTROL"} : MixClientEvent(c, type)
    \/ MixPostCount
    \/ MixPostDrop
    \/ MixPostState
    \/ \E c \in LimitPeers, type \in {"PCM", "CONTROL"} : CaptureHangup(c, type)

SpecLimit == InitLimit /\ [][NextLimit]_vars

\* ------------------------------------------------------------ shutdown
\*
\* One playback client, U8 stereo with a period of one frame, whose peer writes
\* a partial frame or fills the client buffer, while the transport reads. At
\* any time after the start of the mix thread the main thread begins
\* bluealsa_pcm_multi_cleanup. hist.cleanup is the position of the main thread.

ShutWrites == 1

InitShut ==
    /\ multi = InitWorldOf(PcmFormat, PcmChannels, PeriodFrames).multi
    /\ pcm = InitWorldOf(PcmFormat, PcmChannels, PeriodFrames).pcm
    /\ cl = InitWorldOf(PcmFormat, PcmChannels, PeriodFrames).cl
    /\ pipe = InitWorldOf(PcmFormat, PcmChannels, PeriodFrames).pipe
    /\ ctl = InitWorldOf(PcmFormat, PcmChannels, PeriodFrames).ctl
    /\ worker = [pc |-> "none", batch |-> {}]
    /\ transport = [pc |-> "idle", state |-> "INIT", req |-> 0, start |-> 0,
                    samples |-> 0, n |-> 0, ret |-> -1, errno |-> "PENDING"]
    /\ hist = [ written |-> [c \in ClientIds |-> 0], writes |-> 0, cmds |-> 0,
                sent |-> [c \in ClientIds |-> -1], added |-> {}, out |-> << >>,
                lim |-> [clients |-> 1, writes |-> ShutWrites, cmds |-> 0, out |-> 0],
                cleanup |-> "idle" ]

\* cleanup by the main thread, up to its pthread_join: with the thread of the
\* multi running, 0xDEAD0000 is written to the wake-up counter
CleanupPost ==
    /\ worker.pc # "none"
    /\ hist.cleanup = "idle"
    /\ multi' = [multi EXCEPT !.event_fd = << @[1] + ShutdownHigh, @[2] >>]
    /\ hist' = [hist EXCEPT !.cleanup = "posted"]
    /\ UNCHANGED << pcm, cl, pipe, ctl, worker, transport >>

\* the transport thread, with the test of its wait loop and its
\* pthread_cond_wait as separate steps
ShutTransportNext ==
    \/ ReadBegin(multi.playback_buffer.period)
    \/ ReadCheck
    \/ ReadWait
    \/ ReadSwitch
    \/ ReadLoop
    \/ ReadStore

NextShut ==
    \/ \E c \in ClientIds : AddClient(c)
    \/ \E c \in ClientIds :
        \E n \in {1, BLUEALSA_CLIENT_BUFFER_PERIODS * multi.period_bytes} : PeerWrite(c, n)
    \/ CleanupPost
    \/ WorkerNext
    \/ ShutTransportNext

\* the mix thread handles the events epoll reports, the transport thread reads
\* when its PCM is signalled
SpecShut ==
    /\ InitShut
    /\ [][NextShut]_vars
    /\ WF_worker(WorkerStep)
    /\ WF_vars(ShutTransportNext)

\* ------------------------------------------------------------ locks
\*
\* The mutexes the threads of a multi take. A call is the sequence of lock and
\* unlock operations of one path through a function; hist.owner is the thread
\* that holds each mutex and hist.path what is left of the call each thread is
\* in. pthread_cond_wait unlocks buffer_mutex and locks it again.
\*
\* main: cleanup (70-74), init_clients (124-133), add_client (246-249, 295-300
\* and 258-286). transport: write (323-345, with 326-328 when Finished), read
\* (358-367 and 402-404, 375-379 without and with pthread_cond_wait). mix: the
\* wake-up (482-488), a removal or update_mix (499-501, 528-530),
\* wake_transport and stop_if_no_clients (423-425, 440-443). snoop: a hang-up
\* (598-604, with stop_if_no_clients when the last client left)

\* a mix thread that takes client_mutex before buffer_mutex on a wake-up
LockPathsInverted(thread) ==
    IF thread = "mix"
    THEN { << << "lock", "client" >>, << "lock", "buffer" >>,
              << "unlock", "buffer" >>, << "unlock", "client" >> >> }
    ELSE { << << "lock", "pcm" >>, << "unlock", "pcm" >> >>,
           << << "lock", "buffer" >>, << "unlock", "buffer" >> >>,
           << << "lock", "client" >>, << "lock", "pcm" >>,
              << "unlock", "pcm" >>, << "unlock", "client" >> >> }

LockPaths(thread) ==
    CASE thread = "main" ->
            { << << "lock", "client" >>, << "unlock", "client" >> >>,
              << << "lock", "pcm" >>, << "unlock", "pcm" >> >> }
      [] thread = "transport" ->
            { << << "lock", "client" >>, << "unlock", "client" >> >>,
              << << "lock", "client" >>, << "lock", "pcm" >>,
                 << "unlock", "pcm" >>, << "unlock", "client" >> >>,
              << << "lock", "pcm" >>, << "unlock", "pcm" >> >>,
              << << "lock", "buffer" >>, << "unlock", "buffer" >> >>,
              << << "lock", "buffer" >>, << "unlock", "buffer" >>,
                 << "lock", "buffer" >>, << "unlock", "buffer" >> >> }
      [] thread = "mix" ->
            { << << "lock", "buffer" >>, << "lock", "client" >>,
                 << "unlock", "client" >>, << "unlock", "buffer" >> >>,
              << << "lock", "client" >>, << "unlock", "client" >> >>,
              << << "lock", "pcm" >>, << "unlock", "pcm" >> >> }
      [] thread = "snoop" ->
            { << << "lock", "client" >>, << "unlock", "client" >> >>,
              << << "lock", "client" >>, << "lock", "pcm" >>,
                 << "unlock", "pcm" >>, << "unlock", "client" >> >> }

LockThreads == {"main", "transport", "mix", "snoop"}

InitLock ==
    /\ multi = InitWorldOf(PcmFormat, PcmChannels, PeriodFrames).multi
    /\ pcm = InitWorldOf(PcmFormat, PcmChannels, PeriodFrames).pcm
    /\ cl = InitWorldOf(PcmFormat, PcmChannels, PeriodFrames).cl
    /\ pipe = InitWorldOf(PcmFormat, PcmChannels, PeriodFrames).pipe
    /\ ctl = InitWorldOf(PcmFormat, PcmChannels, PeriodFrames).ctl
    /\ worker = [pc |-> "none", batch |-> {}]
    /\ transport = [pc |-> "idle", state |-> "INIT", req |-> 0, start |-> 0,
                    samples |-> 0, n |-> 0, ret |-> -1, errno |-> "PENDING"]
    /\ hist = [ owner |-> [m \in {"buffer", "client", "pcm"} |-> "none"],
                path |-> [t \in LockThreads |-> << >>] ]

\* a thread outside every call enters one
LockCall(t) ==
    /\ hist.path[t] = << >>
    /\ \E p \in LockPaths(t) : hist' = [hist EXCEPT !.path[t] = p]
    /\ UNCHANGED << multi, pcm, cl, pipe, ctl, worker, transport >>

\* the next operation of the call: pthread_mutex_lock goes on once the mutex
\* is free, pthread_mutex_unlock frees it
LockStep(t) ==
    /\ hist.path[t] # << >>
    /\ LET op == Head(hist.path[t])
       IN IF op[1] = "lock"
          THEN /\ hist.owner[op[2]] = "none"
               /\ hist' = [hist EXCEPT !.owner[op[2]] = t, !.path[t] = Tail(@)]
          ELSE hist' = [hist EXCEPT !.owner[op[2]] = "none", !.path[t] = Tail(@)]
    /\ UNCHANGED << multi, pcm, cl, pipe, ctl, worker, transport >>

NextLock == \E t \in LockThreads : LockCall(t) \/ LockStep(t)

SpecLock == InitLock /\ [][NextLock]_vars

\* ------------------------------------------------------------ properties

\* the clients of the list that actively transfer audio
ActiveClients ==
    { c \in ClientIds : cl[c].state \in
        (IF pcm.mode = "SINK" THEN {"RUNNING", "DRAINING1"} ELSE {"RUNNING"}) }

\* C1: whenever the worker waits for events, active_count is the number of
\* clients that are Running or Draining1 (playback)
C1_ActiveCountMatches ==
    worker.pc = "wait" => multi.active_count = Cardinality(ActiveClients)

\* the clients whose cursor is in use
CursorClients == { c \in ClientIds : cl[c].state \in {"RUNNING", "PAUSED", "DRAINING1"} }

\* C2: at any time the wrap-aware distance from the mix head to the cursor of
\* every playback client is strictly less than (MIX_THRESHOLD + 1) periods
C2_CursorWithinLimit ==
    \A c \in CursorClients :
        CursorDistance(multi.playback_buffer, cl[c].out_offset)
            < (BLUEALSA_MULTI_MIX_THRESHOLD + 1) * multi.playback_buffer.period

\* the signed value of a sample as read stored it
SignedOut(format, x) ==
    CASE format = "U8" -> x - 128
      [] format = "S16_2LE" -> x
      [] format = "S24_4LE" -> IF x >= 8388608 THEN x - 16777216 ELSE x

\* a sum clamped to the signed range of the format
Clamp(format, x) ==
    IF x > FormatMax(format) THEN FormatMax(format)
    ELSE IF x < FormatMin(format) THEN FormatMin(format)
    ELSE x

\* the samples the transport received are silence and then the first samples
\* of the stream of client c
IsStreamAfterSilence(out, format, c) ==
    \E z \in 0 .. Len(out) :
        /\ \A i \in 1 .. z : SignedOut(format, out[i]) = 0
        /\ \A i \in z + 1 .. Len(out) :
               SignedOut(format, out[i]) = ClientSample(c, i - z - 1)

\* C3: with one playback client and identity scale the samples the transport
\* has received are a pre-roll of zero samples followed by the samples of the
\* client in the order written, none lost, duplicated or reordered
C3_StreamIdentity ==
    (hist.added = {1} /\ \A ch \in DOMAIN pcm.scale : pcm.scale[ch] = 100) =>
        IsStreamAfterSilence(hist.out, multi.playback_buffer.format, 1)

C5_ReadWholeFrames ==
    hist.last.op = "read" =>
        LET buffer == multi.playback_buffer
            last == hist.last
        IN /\ last.ret % buffer.channels = 0
           /\ last.ret <= buffer.period
           /\ last.ret <= last.avail
           /\ buffer.mix_offset % buffer.size = (last.from + last.ret) % buffer.size
           /\ \A j \in 0 .. last.ret - 1 : buffer.data[(last.from + j) % buffer.size] = 0

\* what one step may do to client c once it has received Drain while Running
DrainStep(c) ==
    LET pre == cl[c].state
        post == cl'[c].state
        silent == ctl'[c].reply = ctl[c].reply
    IN /\ pre = "RUNNING" => silent /\ post \in {"RUNNING", "DRAINING1", "FINISHED", "NONE"}
       /\ pre = "DRAINING1" => silent /\ post \in {"DRAINING1", "DRAINING2", "FINISHED", "NONE"}
       /\ (pre = "DRAINING1" /\ post = "DRAINING2") =>
              /\ cl'[c].in_offset = 0
              /\ pipe'[c].data = << >>
              /\ CursorDistance(multi'.playback_buffer, cl'[c].out_offset) = 0
       /\ pre = "DRAINING2" =>
              \/ silent /\ post \in {"DRAINING2", "FINISHED", "NONE"}
              \/ /\ post = "IDLE"
                 /\ cl[c].drain_timer = "expired"
                 /\ ctl'[c].reply = Append(ctl[c].reply, "OK")

\* C6: a playback client that receives Drain while Running gets no "OK"
\* before it has gone Running -> Draining1 -> Draining2 and the drain-timer
\* event has been handled; it enters Draining2 only with its buffer and pipe
\* empty and the mix head at its cursor; the reply is written in the step
\* that takes it from Draining2 to Idle
C6_DrainReplyDeferred == [][\A c \in ClientIds : DrainStep(c)]_vars

\* C7: a playback client that sends Drain while Running and then sends
\* nothing else is eventually answered and Idle again, when the worker, the
\* transport thread and the timer are scheduled fairly
C7_DrainAnswered ==
    (cl[1].state = "DRAINING1" /\ hist.writes = hist.lim.writes)
        ~> (cl[1].state = "IDLE" /\ ctl[1].reply # << >>)

\* the samples of the stream among those the transport received
StreamSamples(out, format) ==
    Cardinality({ i \in 1 .. Len(out) : SignedOut(format, out[i]) # 0 })

\* C8: a playback client that writes one and a half periods and then sends
\* Drain is answered only after the transport has read all of it
C8_DrainAfterPlayback ==
    (hist.sent[1] = (3 * multi.period_bytes) \div 2 /\ ctl[1].reply # << >>) =>
        StreamSamples(hist.out, multi.playback_buffer.format)
            >= hist.sent[1] \div BA_TRANSPORT_PCM_FORMAT_BYTES(multi.playback_buffer.format)

\* the step in which the mix thread reads a Drop of client c from its control
\* socket and handles it
HandlesDrop(c) ==
    /\ worker.pc = "dispatch"
    /\ << c, "CONTROL" >> \in worker.batch
    /\ ctl[c].msgs # << >>
    /\ Head(ctl[c].msgs) = BLUEALSA_PCM_CTRL_DROP
    /\ ctl'[c].msgs = Tail(ctl[c].msgs)

\* C9: the handling of a Drop leaves a playback client, whatever its state
\* was, Idle with in_offset 0, the drain timer disarmed and the drop flag set,
\* and writes exactly one "OK" for the Drop; from Draining2 the handler first
\* writes the "OK" that the pending Drain was waiting for
C9_DropResets ==
    [][\A c \in ClientIds : HandlesDrop(c) =>
          /\ cl'[c].state = "IDLE"
          /\ cl'[c].in_offset = 0
          /\ cl'[c].drain_timer = "off"
          /\ cl'[c].drop
          /\ ctl'[c].reply =
                 (IF cl[c].state = "DRAINING2" THEN Append(ctl[c].reply, "OK") ELSE ctl[c].reply)
                     \o << "OK" >>]_vars

\* a Drop has just been handled for a client that had been playing
C9_Witness ==
    /\ cl[1].state = "IDLE"
    /\ cl[1].drop
    /\ ctl[1].reply # << >>
    /\ hist.out # << >>

\* C10: once the mix thread has finished the batch in which the only playback
\* client dropped, and while that client stays Idle, the mix is empty, every
\* cell is zero and the drop flag is cleared, whatever a concurrent read of
\* the transport thread did
C10_DropClearsMix ==
    ( /\ pcm.signal = "DROP"
      /\ multi.client_count = 1
      /\ cl[1].state = "IDLE"
      /\ worker.pc = "wait"
      /\ transport.pc = "idle" ) =>
        /\ bluealsa_mix_buffer_empty(multi.playback_buffer)
        /\ \A i \in DOMAIN multi.playback_buffer.data : multi.playback_buffer.data[i] = 0
        /\ ~cl[1].drop

\* the step in which the mix thread reads a command of client c from its
\* control socket and handles it
HandlesControl(c) ==
    /\ worker.pc = "dispatch"
    /\ << c, "CONTROL" >> \in worker.batch
    /\ cl[c].control_fd # -1
    /\ ctl[c].msgs # << >>
    /\ ctl'[c].msgs = Tail(ctl[c].msgs)

\* the ring position at which the next add of client c starts
NextAddPosition(w, c) == CursorPosition(w.multi.playback_buffer, w.cl[c].out_offset)

\* C11: a Pause of a Running playback client followed at once by Resume, with
\* no read of the transport in between, leaves the next add of the client at
\* the ring position it had before the Pause, whatever the lead of the client
\* over the mix head was
C11_PauseResumeKeepsPosition ==
    [][\A c \in ClientIds :
          ( /\ HandlesControl(c)
            /\ Head(ctl[c].msgs) = BLUEALSA_PCM_CTRL_PAUSE
            /\ cl[c].state = "RUNNING" ) =>
              NextAddPosition(bluealsa_pcm_client_resume(World', c), c)
                  = NextAddPosition(World, c)]_vars

\* C12: a control message that is none of Drain, Drop, Pause, Resume is
\* answered with "Invalid" and leaves the state of the client, in_offset,
\* out_offset, the watch flag, the drop flag and active_count as they were, in
\* whatever state the client is
C12_InvalidChangesNothing ==
    [][\A c \in ClientIds :
          (HandlesControl(c) /\ Head(ctl[c].msgs) \notin CtrlCommands) =>
              /\ ctl'[c].reply = Append(ctl[c].reply, "Invalid")
              /\ cl'[c].state = cl[c].state
              /\ cl'[c].in_offset = cl[c].in_offset
              /\ cl'[c].out_offset = cl[c].out_offset
              /\ cl'[c].watch = cl[c].watch
              /\ cl'[c].drop = cl[c].drop
              /\ multi'.active_count = multi.active_count]_vars

\* the state of client c at the point where bluealsa_pcm_client_handle_control
\* has run the drain handler for a draining client and compares the command
DispatchState(c) ==
    IF cl[c].state \in {"DRAINING1", "DRAINING2"}
    THEN bluealsa_pcm_client_handle_drain(World, c).cl[c].state
    ELSE cl[c].state

\* C13: a control command that arrives while the playback client is in
\* Draining1 or Draining2 is dispatched with the client in Idle
C13_DispatchedFromIdle ==
    [][\A c \in ClientIds :
          (HandlesControl(c) /\ cl[c].state \in {"DRAINING1", "DRAINING2"}) =>
              DispatchState(c) = "IDLE"]_vars

\* C14: once the peer of a client has closed its end of the data pipe or of
\* the control socket, the client eventually is Finished and removed from the
\* client set, in whatever state it was
C14_HangupFinishes ==
    (cl[1].state # "NONE" /\ (~pipe[1].writer_open \/ ~ctl[1].peer_open))
        ~> (cl[1].state = "NONE" /\ multi.client_count = 0)

\* C15: Finished is absorbing: no step takes a client that is Finished to
\* another state; the client may only be removed
C15_FinishedAbsorbing ==
    [][\A c \in ClientIds :
          cl[c].state = "FINISHED" => cl'[c].state \in {"FINISHED", "NONE"}]_vars

\* C16: whenever the worker waits for events, no client of the client set is
\* Finished
C16_NoFinishedWhileWaiting ==
    worker.pc = "wait" =>
        \A i \in 1 .. Len(multi.clients) : cl[multi.clients[i]].state # "FINISHED"

\* C17: no stall in playback: when the mix thread and the transport thread
\* are scheduled fairly, a Running client that holds a whole frame in its
\* buffer does not keep it for ever; the frame is eventually taken into the
\* mix for the transport to read, whatever commands the client has sent before
C17_NoStall ==
    (cl[1].state = "RUNNING" /\ cl[1].in_offset >= multi.playback_buffer.frame_size)
        ~> (cl[1].state # "RUNNING" \/ cl[1].in_offset < multi.playback_buffer.frame_size)

\* the client buffer is full and the pipe is no longer watched
BackPressure(c) ==
    /\ cl[c].state = "RUNNING"
    /\ cl[c].in_offset = cl[c].buffer_size
    /\ ~cl[c].watch

\* C18 as stated: when one playback client keeps writing and the transport
\* never reads, the pipe watch is disabled only after the mix has taken
\* (MIX_THRESHOLD + 1) periods from the client and add returns 0
C18_AddRefusesAtLimit ==
    BackPressure(1) =>
        bluealsa_mix_buffer_add(multi.playback_buffer, cl[1].out_offset,
                                cl[1].buffer, cl[1].in_offset).ret = 0

\* C18 amended: when one playback client keeps writing and the transport
\* never reads, the mix never holds more than MIX_THRESHOLD periods, pre-roll
\* included; bytes wait in the pipe with no event pending only when the client
\* buffer is full and the pipe watch is disabled; from then on the watch stays
\* disabled, the client buffer stays as it is and no byte leaves the pipe
C18_BackPressureAtThreshold ==
    /\ [](bluealsa_mix_buffer_calc_avail(multi.playback_buffer,
              multi.playback_buffer.mix_offset, multi.playback_buffer.end)
            <= BLUEALSA_MULTI_MIX_THRESHOLD * multi.playback_buffer.period)
    /\ []((worker.pc = "wait" /\ ReadyEvents = {} /\ pipe[1].data # << >>) => BackPressure(1))
    /\ [][BackPressure(1) =>
              /\ BackPressure(1)'
              /\ cl'[1].buffer = cl[1].buffer
              /\ Len(pipe'[1].data) >= Len(pipe[1].data)
              /\ SubSeq(pipe'[1].data, 1, Len(pipe[1].data)) = pipe[1].data]_vars

\* the peer has written more than the mix and the client buffer take: bytes
\* wait in the pipe of a Running client that is no longer watched
C18_Witness ==
    /\ BackPressure(1)
    /\ worker.pc = "wait"
    /\ multi.state = "RUNNING"
    /\ pipe[1].data # << >>

\* C19: a multi write of one block, while the multi is not Finished, appends
\* the whole block to the pipe of every Running client whose pipe has room,
\* writes nothing to a client that is not Running, drops the block of a
\* Running client whose pipe is full and leaves that client Running, and
\* returns the count of samples it was given; what a client receives does not
\* depend on the pipes of the other clients being full or closed
C19_CaptureFanOut ==
    [][(hist'.ops = hist.ops + 1 /\ hist'.last.op = "write" /\ multi.state # "FINISHED") =>
          /\ hist'.last.ret = hist'.last.samples
          /\ \A c \in ClientIds :
                /\ (cl[c].state = "RUNNING" /\ pipe[c].writer_open
                      /\ PipeRoom(World, c) >= Len(hist'.last.block)) =>
                       pipe'[c].data = pipe[c].data \o hist'.last.block
                /\ (cl[c].state = "RUNNING" /\ pipe[c].writer_open
                      /\ PipeRoom(World, c) < Len(hist'.last.block)) =>
                       pipe'[c].data = pipe[c].data /\ cl'[c].state = "RUNNING"
                /\ cl[c].state # "RUNNING" => pipe'[c].data = pipe[c].data]_vars

\* C20: client_count never exceeds BLUEALSA_MULTI_MAX_CLIENTS, whatever the
\* order of the add_client calls and of the removals by the worker, and an
\* add_client call made with BLUEALSA_MULTI_MAX_CLIENTS clients present returns
\* false and leaves the client set, the state of the multi and the event
\* source of the transport PCM as they were
C20_ClientLimit ==
    /\ [](/\ multi.client_count <= BLUEALSA_MULTI_MAX_CLIENTS
          /\ multi.client_count = Len(multi.clients))
    /\ [][(hist'.adds # hist.adds /\ multi.client_count = BLUEALSA_MULTI_MAX_CLIENTS) =>
             /\ ~hist'.last.ret
             /\ multi'.clients = multi.clients
             /\ multi'.client_count = multi.client_count
             /\ multi'.state = multi.state
             /\ pcm' = pcm
             /\ cl' = cl]_vars

\* a call was refused at the limit, which was reached again after a removal
C20_Witness ==
    /\ multi.client_count = BLUEALSA_MULTI_MAX_CLIENTS
    /\ hist.last.op = "add"
    /\ ~hist.last.ret
    /\ Head(multi.clients) \in LimitPeers

\* C21: the playback multi goes from Init to Running, where the worker wakes
\* the transport, only with at least BLUEALSA_MULTI_MIX_THRESHOLD periods of
\* samples in the mix, at the first start and at a restart after starvation
C21_StartsAtThreshold ==
    [][(multi.state = "INIT" /\ multi'.state = "RUNNING") =>
          bluealsa_mix_buffer_calc_avail(multi'.playback_buffer,
              multi'.playback_buffer.mix_offset, multi'.playback_buffer.end)
              >= BLUEALSA_MULTI_MIX_THRESHOLD * multi'.playback_buffer.period]_vars

\* C22: a transport read takes samples from the mix only after the worker has
\* consumed the wake-up posted by that read call and finished the refill, so
\* that the worker adds nothing to the mix while the transport is inside
\* bluealsa_mix_buffer_read, also for a read that follows a read answered
\* with EAGAIN in Init
C22_ReadAfterRefill ==
    /\ [](transport.pc \in {"loop", "store"} => multi.event_fd = << 0, 0 >>)
    /\ [][(/\ transport.pc \in {"loop", "store"}
            /\ \/ worker.pc = "post_state" /\ worker'.pc = "wait"
               \/ worker.pc = "dispatch" /\ multi'.event_fd # multi.event_fd) =>
             /\ multi'.playback_buffer.end = multi.playback_buffer.end
             /\ multi'.playback_buffer.data = multi.playback_buffer.data]_vars

LockWaitsFor(t, u) ==
    /\ hist.path[t] # << >>
    /\ Head(hist.path[t])[1] = "lock"
    /\ hist.owner[Head(hist.path[t])[2]] = u

\* C24: no thread takes buffer_mutex while it holds client_mutex or the mutex
\* of the transport PCM, nor client_mutex while it holds the mutex of the PCM,
\* and no two threads ever wait for a mutex that the other holds
C24_LockOrder ==
    /\ [][\A t \in LockThreads :
             /\ (hist'.owner["buffer"] = t /\ hist.owner["buffer"] # t) =>
                    hist.owner["client"] # t /\ hist.owner["pcm"] # t
             /\ (hist'.owner["client"] = t /\ hist.owner["client"] # t) =>
                    hist.owner["pcm"] # t]_vars
    /\ [](\A t, u \in LockThreads : ~(t # u /\ LockWaitsFor(t, u) /\ LockWaitsFor(u, t)))

\* the mix thread holds buffer_mutex and client_mutex, the transport thread
\* waits for buffer_mutex and the main thread for client_mutex
C24_Witness ==
    /\ hist.owner["buffer"] = "mix"
    /\ hist.owner["client"] = "mix"
    /\ LockWaitsFor("transport", "mix")
    /\ LockWaitsFor("main", "mix")

\* C25: a mix worker that finds client_count = 0 after a batch sets the multi
\* to Finished, clears the mix (mix_offset = end = 0, every cell 0), releases
\* the event source of the transport PCM and signals the transport to close;
\* a transport read that has taken the state Finished releases the event
\* source and returns 0
C25_NoClientsFinishes ==
    [][/\ (worker.pc = "post_count" /\ worker' # worker /\ multi.client_count = 0) =>
             /\ multi'.state = "FINISHED"
             /\ multi'.playback_buffer.mix_offset = 0
             /\ multi'.playback_buffer.end = 0
             /\ \A i \in DOMAIN multi'.playback_buffer.data : multi'.playback_buffer.data[i] = 0
             /\ pcm'.fd = -1
             /\ pcm'.signal = "CLOSE"
       /\ (transport.pc = "switch" /\ transport' # transport /\ transport.state = "FINISHED") =>
             /\ pcm'.fd = -1
             /\ transport'.pc = "idle"
             /\ transport'.ret = 0]_vars

\* the worker has finished a multi that held samples and the transport read
\* that was under way has returned 0
C25_Witness ==
    /\ multi.state = "FINISHED"
    /\ multi.client_count = 0
    /\ pcm.signal = "CLOSE"
    /\ transport.pc = "idle"
    /\ transport.state = "FINISHED"
    /\ transport.ret = 0

\* C26: once the last capture client has been removed, by the snoop thread on
\* a hang-up of the pipe or of the control socket or by the write of the
\* transport thread after a pipe error, the multi is Finished and the
\* transport has been signalled to close
C26_LastCaptureClientFinishes ==
    (pcm.mode = "SOURCE" /\ multi.client_count = 0) =>
        (multi.state = "FINISHED" /\ pcm.signal = "CLOSE")

\* C27: what a playback read returns follows from the state it took in its
\* wait loop: Running reads the mix and returns the samples read, or EAGAIN
\* when there are none; Init returns EAGAIN and leaves mix_offset; Finished
\* releases the event source of the transport PCM and returns 0; any other
\* state returns EIO. A read on a PCM without event source returns EBADF and
\* writes no wake-up
C27_ReadResult ==
    [][/\ (transport.pc = "switch" /\ transport' # transport) =>
             CASE transport.state = "RUNNING" ->
                    transport'.pc = "loop"
               [] transport.state = "INIT" ->
                    /\ transport'.pc = "idle"
                    /\ transport'.ret = -1 /\ transport'.errno = "EAGAIN"
                    /\ multi'.playback_buffer.mix_offset = multi.playback_buffer.mix_offset
               [] transport.state = "FINISHED" ->
                    /\ transport'.pc = "idle"
                    /\ transport'.ret = 0
                    /\ pcm'.fd = -1
               [] OTHER ->
                    /\ transport'.pc = "idle"
                    /\ transport'.ret = -1 /\ transport'.errno = "EIO"
       /\ (transport.pc = "store" /\ transport' # transport) =>
             /\ transport'.pc = "idle"
             /\ IF transport.samples > 0
                THEN transport'.ret = transport.samples /\ transport'.errno = "NONE"
                ELSE transport'.ret = -1 /\ transport'.errno = "EAGAIN"
       /\ (transport.pc = "idle" /\ transport' # transport /\ pcm.fd = -1) =>
             /\ transport'.pc = "idle"
             /\ transport'.ret = -1 /\ transport'.errno = "EBADF"
             /\ multi'.event_fd = multi.event_fd]_vars

\* a read has failed with EBADF after the multi had finished
C27_Witness ==
    /\ transport.errno = "EBADF"
    /\ transport.state = "FINISHED"
    /\ multi.state = "FINISHED"
    /\ pcm.fd = -1

\* C28: an add_client call that fails in the allocation of the client, the
\* registration of its descriptors or the allocation of its buffer leaves the
\* client list, client_count, the state of the multi and the event source of
\* the transport PCM as they were before the call
C28_FailedAddKeepsMulti ==
    [][(hist'.adds # hist.adds /\ hist'.last.op = "fail") =>
          /\ multi'.clients = multi.clients
          /\ multi'.client_count = multi.client_count
          /\ multi'.state = multi.state
          /\ pcm'.fd = pcm.fd]_vars

\* C29: every change of the state of a playback client is Init -> Idle,
\* Idle -> Running, Running -> Paused, Paused -> Running, Running ->
\* Draining1, Draining1 -> Draining2, Draining2 -> Idle, a change to Idle made
\* by the command Drop, or a change to Finished
C29_ClientTransitions ==
    [][\A c \in ClientIds :
          (/\ pcm.mode = "SINK"
           /\ cl'[c].state # cl[c].state
           /\ cl[c].state # "NONE"
           /\ cl'[c].state # "NONE") =>
              \/ << cl[c].state, cl'[c].state >> \in
                     { << "INIT", "IDLE" >>, << "IDLE", "RUNNING" >>,
                       << "RUNNING", "PAUSED" >>, << "PAUSED", "RUNNING" >>,
                       << "RUNNING", "DRAINING1" >>, << "DRAINING1", "DRAINING2" >>,
                       << "DRAINING2", "IDLE" >> }
              \/ cl'[c].state = "FINISHED"
              \/ /\ cl'[c].state = "IDLE"
                 /\ ctl[c].msgs # << >>
                 /\ strncmp_eq(Head(ctl[c].msgs), BLUEALSA_PCM_CTRL_DROP)
                 /\ ctl'[c].msgs = Tail(ctl[c].msgs)]_vars

\* C30: for a capture client the commands Drain and Drop are answered "OK" at
\* once and change neither the state of the client nor active_count, Pause
\* leaves the client Paused and Resume leaves it Running, each answered "OK",
\* and a capture client is never Draining1 or Draining2
C30_CaptureCommands ==
    /\ [](pcm.mode = "SOURCE" =>
             \A c \in ClientIds : cl[c].state \notin {"DRAINING1", "DRAINING2"})
    /\ [][(pcm.mode = "SOURCE" /\ hist'.ops = hist.ops + 1 /\ hist'.last.op = "control") =>
             LET c == hist'.last.client
                 command == hist'.last.command
             IN /\ (cl[c].control_fd # -1 /\ ctl[c].peer_open) => ctl'[c].reply = << "OK" >>
                /\ command \in {BLUEALSA_PCM_CTRL_DRAIN, BLUEALSA_PCM_CTRL_DROP} =>
                       /\ cl'[c].state = cl[c].state
                       /\ multi'.active_count = multi.active_count
                /\ command = BLUEALSA_PCM_CTRL_PAUSE => cl'[c].state = "PAUSED"
                /\ command = BLUEALSA_PCM_CTRL_RESUME => cl'[c].state = "RUNNING"]_vars

\* C30, for clients in any state: as C30 above, except that Resume leaves in
\* Init a capture client that is still in Init, which is the state of a client
\* added before bluealsa_pcm_multi_init; it is answered "OK" all the same
C30_CaptureCommandsInit ==
    /\ [](pcm.mode = "SOURCE" =>
             \A c \in ClientIds : cl[c].state \notin {"DRAINING1", "DRAINING2"})
    /\ [][(pcm.mode = "SOURCE" /\ hist'.ops = hist.ops + 1 /\ hist'.last.op = "control") =>
             LET c == hist'.last.client
                 command == hist'.last.command
             IN /\ (cl[c].control_fd # -1 /\ ctl[c].peer_open) => ctl'[c].reply = << "OK" >>
                /\ command \in {BLUEALSA_PCM_CTRL_DRAIN, BLUEALSA_PCM_CTRL_DROP} =>
                       /\ cl'[c].state = cl[c].state
                       /\ multi'.active_count = multi.active_count
                /\ command = BLUEALSA_PCM_CTRL_PAUSE => cl'[c].state = "PAUSED"
                /\ command = BLUEALSA_PCM_CTRL_RESUME =>
                       cl'[c].state = IF cl[c].state = "INIT" THEN "INIT" ELSE "RUNNING"]_vars

\* Resume has been handled and answered "OK" for a capture client in Init,
\* while the other client, paused before, is Running again
C30_Witness ==
    /\ pcm.mode = "SOURCE"
    /\ hist.last.op = "control"
    /\ hist.last.command = BLUEALSA_PCM_CTRL_RESUME
    /\ cl[hist.last.client].state = "INIT"
    /\ ctl[hist.last.client].reply = << "OK" >>
    /\ \E c \in ClientIds : cl[c].state = "RUNNING"

\* C31: the command Resume handled for a playback client that is Running
\* changes nothing of the client (state, in_offset, out_offset, watch, drop)
\* nor active_count, and is answered "OK"
C31_ResumeRunningNoOp ==
    [][(/\ pcm.mode = "SINK"
        /\ hist'.ops = hist.ops + 1
        /\ hist'.last.op = "control"
        /\ hist'.last.command = BLUEALSA_PCM_CTRL_RESUME
        /\ cl[hist'.last.client].state = "RUNNING") =>
          /\ cl' = cl
          /\ multi' = multi
          /\ ctl'[hist'.last.client].reply = << "OK" >>]_vars

\* Resume was handled for a client that a pipe read had just made Running
C31_Witness ==
    /\ pcm.mode = "SINK"
    /\ hist.ops = 2
    /\ hist.last.op = "control"
    /\ hist.last.command = BLUEALSA_PCM_CTRL_RESUME
    /\ cl[hist.last.client].state = "RUNNING"
    /\ cl[hist.last.client].in_offset > 0
    /\ ctl[hist.last.client].reply = << "OK" >>

\* C32: after any sequence of adds, reads and clears the samples available in
\* the ring, from mix_offset to end, are at most (BLUEALSA_MULTI_MIX_THRESHOLD
\* + 1) periods, which is less than the capacity size - channels of the ring
C32_RingWithinCapacity ==
    LET buffer == multi.playback_buffer
    IN pcm.mode = "SINK" =>
          /\ bluealsa_mix_buffer_calc_avail(buffer, buffer.mix_offset, buffer.end)
                 <= (BLUEALSA_MULTI_MIX_THRESHOLD + 1) * buffer.period
          /\ (BLUEALSA_MULTI_MIX_THRESHOLD + 1) * buffer.period < buffer.size - buffer.channels

\* C33: a playback client goes from Idle to Running only in a pipe read that
\* leaves more than BLUEALSA_MULTI_CLIENT_THRESHOLD * period_bytes in its
\* buffer, with out_offset set to -(BLUEALSA_MULTI_MIX_THRESHOLD * period -
\* buffered samples); and the first deliver of the client leaves its cursor
\* BLUEALSA_MULTI_MIX_THRESHOLD * period samples ahead of the mix head that
\* deliver found
C33_PreRoll ==
    [][\A c \in ClientIds :
          LET buffer == multi.playback_buffer
              lead == BLUEALSA_MULTI_MIX_THRESHOLD * buffer.period
          IN /\ (pcm.mode = "SINK" /\ cl[c].state = "IDLE" /\ cl'[c].state = "RUNNING") =>
                   /\ cl'[c].in_offset > BLUEALSA_MULTI_CLIENT_THRESHOLD * multi.period_bytes
                   /\ cl'[c].out_offset =
                          -(lead - (cl'[c].in_offset * buffer.channels) \div buffer.frame_size)
             /\ (/\ pcm.mode = "SINK"
                 /\ cl[c].state = "RUNNING" /\ cl'[c].state = "RUNNING"
                 /\ cl[c].out_offset =
                        -(lead - (cl[c].in_offset * buffer.channels) \div buffer.frame_size)
                 /\ cl[c].out_offset < 0
                 /\ cl'[c].out_offset # cl[c].out_offset) =>
                   (cl'[c].out_offset - buffer.mix_offset) % buffer.size = lead]_vars

\* C34: when the worker clears the mix for a pending drop, the only client is
\* not a Running or Draining1 client that has added samples to the mix: the
\* clear takes no samples of a client that is streaming and leaves no Running
\* client with a cursor into the ring as it was before the clear. (A client
\* that is Running with its cursor still relative to the mix head, having
\* added nothing yet, is let pass.)
C34_DropClearWhenSafe ==
    [][(/\ worker.pc = "post_drop"
        /\ worker'.pc = "post_state"
        /\ multi.client_count = 1
        /\ cl[Head(multi.clients)].drop) =>
          \/ cl[Head(multi.clients)].state \notin {"RUNNING", "DRAINING1"}
          \/ cl[Head(multi.clients)].out_offset < 0]_vars

\* C35: a transport thread inside a playback read, at the test of its wait
\* loop, about to call pthread_cond_wait or blocked in it, is released and
\* leaves the read once the mix thread has terminated
C35_ReleasedAtTermination ==
    (worker.pc = "terminated" /\ transport.pc \in {"test", "towait", "blocked"})
        ~> (transport.pc = "idle")

\* C36: no handler is run on a client that has been removed: every event the
\* snoop thread takes from its array belongs to a client that is still there,
\* also when the transport thread has written since epoll_wait returned
C36_NoEventForRemovedClient ==
    [][(worker.pc = "dispatch" /\ worker' # worker)
          => cl[hist'.last.client].state # "NONE"]_vars

\* C37: on a playback multi, while the mix thread waits for events, the state
\* Finished means that there is no client, however add_client interleaves
\* with the test of client_count and the write of Finished after a batch
C37_FinishedMeansNoClient ==
    (pcm.mode = "SINK" /\ worker.pc = "wait" /\ multi.state = "FINISHED")
        => multi.client_count = 0

\* C38: every add of a playback client starts at a ring position whose
\* distance from the mix head is a multiple of channels, whatever byte counts
\* the pipe reads have returned: when update_mix moves the cursor of a Running
\* or Draining1 client, the position that cursor stood for was frame aligned
C38_FrameAligned ==
    [][\A c \in ClientIds :
          LET buffer == multi.playback_buffer
              start == IF cl[c].out_offset < 0 THEN -cl[c].out_offset
                       ELSE (cl[c].out_offset - buffer.mix_offset) % buffer.size
          IN (/\ pcm.mode = "SINK"
              /\ hist'.last.op \in {"update", "read"}
              /\ hist'.ops = hist.ops + 1
              /\ cl[c].state \in {"RUNNING", "DRAINING1"}
              /\ cl'[c].out_offset # cl[c].out_offset) =>
                start % buffer.channels = 0]_vars

\* C39: while a playback client is Paused, and until a Resume, a Drop or a
\* hang-up is handled, its pipe is not watched, no byte goes from its pipe
\* into in_offset and deliver adds nothing of it to the mix: in_offset and
\* out_offset stay as they are
C39_PausedClientIsStill ==
    [][\A c \in ClientIds :
          (/\ pcm.mode = "SINK"
           /\ cl[c].state = "PAUSED" /\ cl'[c].state = "PAUSED"
           /\ pipe[c].writer_open /\ ctl[c].peer_open) =>
             /\ ~cl[c].watch
             /\ cl'[c].in_offset = cl[c].in_offset
             /\ cl'[c].out_offset = cl[c].out_offset]_vars

\* C40: with soft volume off, a read of a playback multi scales every channel
\* by a defined value, 0 for a muted channel and the identity for any other:
\* the samples returned are those a read of the same mix with that scale
\* returns
C40_SoftVolumeOffScale ==
    [][(/\ pcm.mode = "SINK"
        /\ ~pcm.soft_volume
        /\ hist'.ops = hist.ops + 1
        /\ hist'.last.op = "read"
        /\ hist'.last.ret > 0) =>
          hist'.last.out =
              bluealsa_mix_buffer_read(
                  bluealsa_pcm_multi_update_mix(World).multi.playback_buffer,
                  hist'.last.ret, multi_read_scale_identity(World, << >>)).out]_vars

====
